---------------------------- MODULE Spec2Model ----------------------------
(***************************************************************************)
(* A model of the CachePolicy class of http-cache-semantics                *)
(* (src/src/index.ts, the class starting at line 979 and the helpers       *)
(* before it).                                                             *)
(*                                                                         *)
(* Representation.                                                         *)
(*  - A JavaScript string is the sequence of its lexical tokens: a word    *)
(*    (a run of characters other than space, comma, equals sign and double *)
(*    quote) is one token, and each space, comma, equals sign and double   *)
(*    quote is a token of its own.  The empty string is << >>.  The weak   *)
(*    validator prefix W/ is a token of its own.                           *)
(*  - An optional JavaScript value (undefined or a value) is a sequence of *)
(*    length 0 or 1: None is << >>, Some(x) is <<x>>.                      *)
(*  - A JavaScript number is Some(n) for an integer n, or NaN.             *)
(*  - A header object is a function from lower-case header names (TLA+     *)
(*    strings) to strings; a missing property is a name outside DOMAIN.    *)
(*  - Times and durations are integers in units of 50 milliseconds       *)
(*    (UnitsPerSecond to the second), whether the code holds them in       *)
(*    milliseconds or in seconds: the code's divisions and multiplications *)
(*    by 1000 are changes of unit, so its comparisons are the same         *)
(*    comparisons here, and fractional seconds stay exact.                 *)
(*    cacheHeuristic is kept in tenths (1 is the code's default 0.1).      *)
(***************************************************************************)
EXTENDS Integers, Sequences, FiniteSets, TLC

VARIABLES now, request, response, options, policy, out

vars == <<now, request, response, options, policy, out>>

---------------------------------------------------------------------------
(* Optional values and JavaScript numbers *)

None == << >>

Some(x) == <<x>>

NaN == << >>

Num(n) == <<n>>

IsNaN(a) == a = NaN

\* a < b, a <= b, a > b on JavaScript numbers: false when either side is NaN
JsLt(a, b) == a # NaN /\ b # NaN /\ a[1] < b[1]

JsLe(a, b) == a # NaN /\ b # NaN /\ a[1] <= b[1]

JsGt(a, b) == JsLt(b, a)

JsAdd(a, b) == IF a = NaN \/ b = NaN THEN NaN ELSE Num(a[1] + b[1])

JsSub(a, b) == IF a = NaN \/ b = NaN THEN NaN ELSE Num(a[1] - b[1])

\* Math.max: NaN when any argument is NaN
JsMax(a, b) == IF a = NaN \/ b = NaN THEN NaN ELSE IF a[1] >= b[1] THEN a ELSE b

\* a number of seconds, in time units
UnitsPerSecond == 1000 \div 50

JsSeconds(a) == IF a = NaN THEN NaN ELSE Num(a[1] * UnitsPerSecond)

---------------------------------------------------------------------------
(* Strings as token sequences *)

SP == " "

COMMA == ","

EQ == "="

QUOTE == "\""

RECURSIVE TrimLeft(_)
TrimLeft(s) == IF s # << >> /\ Head(s) = SP THEN TrimLeft(Tail(s)) ELSE s

RECURSIVE TrimRight(_)
TrimRight(s) ==
    IF s # << >> /\ s[Len(s)] = SP THEN TrimRight(SubSeq(s, 1, Len(s) - 1)) ELSE s

\* String.prototype.trim
Trim(s) == TrimLeft(TrimRight(s))

\* s.split(sep) for a one-token separator: the pieces between the separators
RECURSIVE SplitOn(_, _, _)
SplitOn(s, sep, cur) ==
    IF s = << >> THEN <<cur>>
    ELSE IF Head(s) = sep THEN <<cur>> \o SplitOn(Tail(s), sep, << >>)
    ELSE SplitOn(Tail(s), sep, Append(cur, Head(s)))

\* s.split(/\s*sep\s*/): the white space around each separator belongs to it
RECURSIVE SplitWs(_, _, _)
SplitWs(s, sep, cur) ==
    IF s = << >> THEN <<cur>>
    ELSE IF TrimLeft(s) # << >> /\ Head(TrimLeft(s)) = sep
         THEN <<cur>> \o SplitWs(TrimLeft(Tail(TrimLeft(s))), sep, << >>)
    ELSE SplitWs(Tail(s), sep, Append(cur, Head(s)))

\* the lower-case form of the tokens of the model that have upper-case letters
LowerTable ==
    [t \in {"WEATHER", "Weather", "Accept", "SUN", "Oompa"} |->
        CASE t = "WEATHER" -> "weather"
          [] t = "Weather" -> "weather"
          [] t = "Accept" -> "accept"
          [] t = "SUN" -> "sun"
          [] t = "Oompa" -> "oompa"]

\* String.prototype.toLowerCase
ToLowerCase(s) ==
    [i \in 1..Len(s) |-> IF s[i] \in DOMAIN LowerTable THEN LowerTable[s[i]] ELSE s[i]]

\* the integer a word starts with, for the words of the model that start with one
IntTable ==
    [t \in {"0", "1", "2", "3", "4", "5", "10", "-1", "2x",
            "60", "120", "180", "200", "240", "300", "360",
            "86400"} |->
        CASE t = "0" -> 0
          [] t = "1" -> 1
          [] t = "2" -> 2
          [] t = "3" -> 3
          [] t = "4" -> 4
          [] t = "5" -> 5
          [] t = "10" -> 10
          [] t = "-1" -> 0 - 1
          [] t = "2x" -> 2
          [] t = "60" -> 60
          [] t = "120" -> 120
          [] t = "180" -> 180
          [] t = "200" -> 200
          [] t = "240" -> 240
          [] t = "300" -> 300
          [] t = "360" -> 360
          [] t = "86400" -> 86400]

\* parseInt(s, 10): leading white space is skipped, then an optional sign and
\* digits are read; NaN when there is none
ParseInt(s) ==
    LET t == TrimLeft(s)
    IN  IF t # << >> /\ Head(t) \in DOMAIN IntTable THEN Num(IntTable[Head(t)]) ELSE NaN

---------------------------------------------------------------------------
(* Header objects *)

NoHeaders == [n \in {} |-> << >>]

\* headers[name]
Get(headers, name) == IF name \in DOMAIN headers THEN Some(headers[name]) ELSE None

\* headers[name] is truthy: present and not the empty string
Truthy(headers, name) == name \in DOMAIN headers /\ headers[name] # << >>

\* headers[s] for a computed property name s (a string of the model)
GetByStr(headers, s) ==
    IF Len(s) = 1 /\ s[1] \in DOMAIN headers THEN Some(headers[s[1]]) ELSE None

\* delete headers[name]
Delete(headers, name) == [n \in DOMAIN headers \ {name} |-> headers[n]]

\* headers[name] = value
Put(headers, name, value) ==
    [n \in DOMAIN headers \cup {name} |-> IF n = name THEN value ELSE headers[n]]

---------------------------------------------------------------------------
(* Cache-Control directives *)

\* a directive's value: the flag true, or a string
Flag == [flag |-> TRUE, str |-> << >>]

Val(s) == [flag |-> FALSE, str |-> s]

NoDirectives == [k \in {} |-> Flag]

\* cc[k] != null
HasDir(cc, k) == <<k>> \in DOMAIN cc

\* cc[k] is truthy: true or a non-empty string
Dir(cc, k) == <<k>> \in DOMAIN cc /\ (cc[<<k>>].flag \/ cc[<<k>>].str # << >>)

\* parseInt(cc[k], 10) for a truthy cc[k]: parseInt(true) is NaN
DirInt(cc, k) == IF cc[<<k>>].flag THEN NaN ELSE ParseInt(cc[<<k>>].str)

\* part.split(/\s*=\s*/, 2): the name, and the value when there is an equals sign
SplitEq2(part) ==
    LET pieces == SplitWs(part, EQ, << >>)
    IN  IF Len(pieces) > 2 THEN SubSeq(pieces, 1, 2) ELSE pieces

\* v.replace(/^"|"$/g, '')
Unquote(v) ==
    LET a == IF v # << >> /\ Head(v) = QUOTE THEN Tail(v) ELSE v
    IN  IF a # << >> /\ a[Len(a)] = QUOTE THEN SubSeq(a, 1, Len(a) - 1) ELSE a

\* the reduction keeping the first occurrence of a directive
RECURSIVE ReducePartsKeepingFirst(_, _)
ReducePartsKeepingFirst(parts, cc) ==
    IF parts = << >> THEN cc
    ELSE LET kv == SplitEq2(Head(parts))
             k  == kv[1]
             v  == IF Len(kv) < 2 THEN Flag ELSE Val(Unquote(kv[2]))
         IN  ReducePartsKeepingFirst(Tail(parts),
                 [x \in DOMAIN cc \cup {k} |-> IF x \in DOMAIN cc THEN cc[x] ELSE v])

RECURSIVE ReduceParts(_, _)
ReduceParts(parts, cc) ==
    IF parts = << >> THEN cc
    ELSE LET kv == SplitEq2(Head(parts))
             k  == kv[1]
             v  == IF Len(kv) < 2 THEN Flag ELSE Val(Unquote(kv[2]))
         IN  ReduceParts(Tail(parts),
                 [x \in DOMAIN cc \cup {k} |-> IF x = k THEN v ELSE cc[x]])

\* parseCacheControl(header): header is headers['cache-control'], optional
ParseCacheControl(header) ==
    IF header = None \/ header[1] = << >> THEN NoDirectives
    ELSE ReduceParts(SplitWs(Trim(header[1]), COMMA, << >>), NoDirectives)


\* the key order of the object parseCacheControl builds: each name at its
\* first occurrence
RECURSIVE KeyOrder(_, _)
KeyOrder(parts, keys) ==
    IF parts = << >> THEN keys
    ELSE LET k == SplitEq2(Head(parts))[1]
         IN  KeyOrder(Tail(parts),
                 IF \E i \in 1..Len(keys) : keys[i] = k THEN keys ELSE Append(keys, k))

\* Object.keys(parseCacheControl(header))
CacheControlKeys(header) ==
    IF header = None \/ header[1] = << >> THEN << >>
    ELSE KeyOrder(SplitWs(Trim(header[1]), COMMA, << >>), << >>)

RECURSIVE JoinDirectives(_, _)
JoinDirectives(keys, cc) ==
    IF keys = << >> THEN << >>
    ELSE LET k == Head(keys)
             one == IF cc[k].flag THEN k ELSE k \o <<EQ>> \o cc[k].str
         IN  IF Tail(keys) = << >> THEN one
             ELSE one \o <<COMMA, SP>> \o JoinDirectives(Tail(keys), cc)

\* formatCacheControl(cc), keys being Object.keys(cc): undefined when cc is empty
FormatCacheControl(cc, keys) ==
    LET kept == SelectSeq(keys, LAMBDA k : k \in DOMAIN cc)
    IN  IF kept = << >> THEN None ELSE Some(JoinDirectives(kept, cc))

\* delete cc[k]
DeleteDir(cc, k) == [x \in DOMAIN cc \ {<<k>>} |-> cc[x]]

\* cc[k] = true
SetFlag(cc, k) == [x \in DOMAIN cc \cup {<<k>>} |-> IF x = <<k>> THEN Flag ELSE cc[x]]

\* Pragma: no-cache respected whether or not Cache-Control was sent
ShouldRespectPragmaAlways(headers) ==
    /\ "pragma" \in DOMAIN headers
    /\ \E i \in 1..Len(headers["pragma"]) : headers["pragma"][i] = "no-cache"

\* shouldRespectPragma(headers); String.prototype.includes('no-cache') on the
\* tokens: a pragma value of the model holds no-cache as a word or not at all
ShouldRespectPragma(headers) ==
    /\ "cache-control" \notin DOMAIN headers
    /\ "pragma" \in DOMAIN headers
    /\ \E i \in 1..Len(headers["pragma"]) : headers["pragma"][i] = "no-cache"

---------------------------------------------------------------------------
(* Dates *)

Seconds(n) == n * UnitsPerSecond

Hours(n) == n * 60 * 60 * UnitsPerSecond

\* the clock at the start of every behaviour: 1 Jan 1970, 10:00:00 GMT
StartTime == Hours(10)

\* Date.parse of the date strings of the model (a date string is one token)
DateTable ==
    [d \in {"Mon, 01 Dec 1969 00:00:00 GMT",
            "Thu, 01 Jan 1970 01:00:00 GMT", "Thu, 01 Jan 1970 09:59:40 GMT",
            "Thu, 01 Jan 1970 09:59:58 GMT", "Thu, 01 Jan 1970 10:00:00 GMT",
            "Thu, 01 Jan 1970 10:00:02 GMT", "Thu, 01 Jan 1970 10:00:05 GMT",
            "Thu, 01 Jan 1970 19:00:00 GMT"} |->
        CASE d = "Mon, 01 Dec 1969 00:00:00 GMT" -> 0 - Hours(31 * 24)
          [] d = "Thu, 01 Jan 1970 01:00:00 GMT" -> Hours(1)
          [] d = "Thu, 01 Jan 1970 09:59:40 GMT" -> StartTime - Seconds(20)
          [] d = "Thu, 01 Jan 1970 09:59:58 GMT" -> StartTime - Seconds(2)
          [] d = "Thu, 01 Jan 1970 10:00:00 GMT" -> StartTime
          [] d = "Thu, 01 Jan 1970 10:00:02 GMT" -> StartTime + Seconds(2)
          [] d = "Thu, 01 Jan 1970 10:00:05 GMT" -> StartTime + Seconds(5)
          [] d = "Thu, 01 Jan 1970 19:00:00 GMT" -> Hours(19)]

\* Date.parse(headers[name]): NaN for a missing header or one that is no date
DateParse(headers, name) ==
    IF name \in DOMAIN headers /\ Len(headers[name]) = 1 /\ headers[name][1] \in DOMAIN DateTable
    THEN Num(DateTable[headers[name][1]])
    ELSE NaN

---------------------------------------------------------------------------
(* The constructor *)

defaultCacheableStatusCodes == {200, 203, 204, 206, 300, 301, 404, 405, 410, 414, 501}

\* understoodStatuses with the partial response 206 in it
understoodStatusesWithPartial ==
    {200, 203, 204, 206, 300, 301, 302, 303, 307, 308, 404, 405, 410, 414, 501}

understoodStatuses == {200, 203, 204, 300, 301, 302, 303, 307, 308, 404, 405, 410, 414, 501}

\* 24 * 60 * 60 * 1000, the number the code holds (a count of milliseconds)
defaultImmutableMinTtl == 24 * 60 * 60 * 1000

\* the constructor's options argument when the caller passes none
NoOptions ==
    [shared |-> None, cacheHeuristic |-> None, immutableMinTimeToLive |-> None,
     ignoreCargoCult |-> None, trustServerDate |-> None]

\* the ignoreCargoCult branch leaving must-revalidate in place
CargoCultKeepingMustRevalidate(rescc) ==
    DeleteDir(DeleteDir(DeleteDir(DeleteDir(rescc,
        "pre-check"), "post-check"), "no-cache"), "no-store")

\* the constructor's ignoreCargoCult branch: the directives and headers the
\* policy keeps
CargoCult(rescc) ==
    DeleteDir(DeleteDir(DeleteDir(DeleteDir(DeleteDir(rescc,
        "pre-check"), "post-check"), "no-cache"), "no-store"), "must-revalidate")

IgnoresCargoCult(opts, rescc) ==
    /\ opts.ignoreCargoCult = Some(TRUE)
    /\ HasDir(rescc, "pre-check")
    /\ HasDir(rescc, "post-check")

CargoCultHeaders(resHeaders, rescc) ==
    LET cacheControl ==
            FormatCacheControl(CargoCult(rescc), CacheControlKeys(Get(resHeaders, "cache-control")))
        h == IF cacheControl = None THEN Delete(resHeaders, "cache-control")
             ELSE Put(resHeaders, "cache-control", cacheControl[1])
    IN  Delete(Delete(h, "expires"), "pragma")

\* new CachePolicy(req, res, opts) at time t, for req and res that have headers
NewCachePolicy(req, res, opts, t) ==
    LET parsed == ParseCacheControl(Get(res.headers, "cache-control"))
        cargo  == IgnoresCargoCult(opts, parsed)
        rescc1 == IF cargo THEN CargoCult(parsed) ELSE parsed
    IN  [responseTime    |-> t,
         isShared        |-> opts.shared # Some(FALSE),
         trustServerDate |-> IF opts.trustServerDate = None THEN Some(TRUE)
                             ELSE opts.trustServerDate,
         cacheHeuristic  |-> IF opts.cacheHeuristic = None THEN 1
                             ELSE opts.cacheHeuristic[1],
         immutableMinTtl |-> IF opts.immutableMinTimeToLive = None
                             THEN defaultImmutableMinTtl
                             ELSE opts.immutableMinTimeToLive[1],
         status          |-> IF res.status = None THEN 200 ELSE res.status[1],
         resHeaders      |-> IF cargo THEN CargoCultHeaders(res.headers, parsed)
                             ELSE res.headers,
         rescc           |-> IF ShouldRespectPragma(res.headers)
                             THEN SetFlag(rescc1, "no-cache") ELSE rescc1,
         method          |-> IF req.method = None THEN "GET" ELSE req.method[1],
         url             |-> req.url,
         host            |-> Get(req.headers, "host"),
         noAuthorization |-> ~Truthy(req.headers, "authorization"),
         reqHeaders      |-> IF Truthy(res.headers, "vary") THEN Some(req.headers)
                             ELSE None,
         reqcc           |-> ParseCacheControl(Get(req.headers, "cache-control"))]

---------------------------------------------------------------------------
(* Storability *)

\* _hasExplicitExpiration() counting s-maxage whatever the kind of cache
HasExplicitExpirationAnyCache(p) ==
    \/ Dir(p.rescc, "s-maxage")
    \/ Dir(p.rescc, "max-age")
    \/ Truthy(p.resHeaders, "expires")

\* _hasExplicitExpiration()
HasExplicitExpiration(p) ==
    \/ p.isShared /\ Dir(p.rescc, "s-maxage")
    \/ Dir(p.rescc, "max-age")
    \/ Truthy(p.resHeaders, "expires")

\* _allowsStoringAuthenticated()
AllowsStoringAuthenticated(p) ==
    \/ Dir(p.rescc, "must-revalidate")
    \/ Dir(p.rescc, "public")
    \/ Dir(p.rescc, "s-maxage")

\* storable() without its test of the response's no-store
StorableKeepingNoStore(p) ==
    /\ ~Dir(p.reqcc, "no-store")
    /\ \/ p.method = "GET"
       \/ p.method = "HEAD"
       \/ p.method = "POST" /\ HasExplicitExpiration(p)
    /\ p.status \in understoodStatuses
    /\ ~p.isShared \/ ~Dir(p.rescc, "private")
    /\ \/ ~p.isShared
       \/ p.noAuthorization
       \/ AllowsStoringAuthenticated(p)
    /\ \/ Truthy(p.resHeaders, "expires")
       \/ Dir(p.rescc, "public")
       \/ Dir(p.rescc, "max-age")
       \/ Dir(p.rescc, "s-maxage")
       \/ p.status \in defaultCacheableStatusCodes

\* storable() refusing private whatever the kind of cache
StorableRefusingPrivate(p) ==
    /\ ~Dir(p.reqcc, "no-store")
    /\ \/ p.method = "GET"
       \/ p.method = "HEAD"
       \/ p.method = "POST" /\ HasExplicitExpiration(p)
    /\ p.status \in understoodStatuses
    /\ ~Dir(p.rescc, "no-store")
    /\ ~Dir(p.rescc, "private")
    /\ \/ ~p.isShared
       \/ p.noAuthorization
       \/ AllowsStoringAuthenticated(p)
    /\ \/ Truthy(p.resHeaders, "expires")
       \/ Dir(p.rescc, "public")
       \/ Dir(p.rescc, "max-age")
       \/ Dir(p.rescc, "s-maxage")
       \/ p.status \in defaultCacheableStatusCodes

\* storable() without its test of the request's Authorization
StorableIgnoringAuthorization(p) ==
    /\ ~Dir(p.reqcc, "no-store")
    /\ \/ p.method = "GET"
       \/ p.method = "HEAD"
       \/ p.method = "POST" /\ HasExplicitExpiration(p)
    /\ p.status \in understoodStatuses
    /\ ~Dir(p.rescc, "no-store")
    /\ ~p.isShared \/ ~Dir(p.rescc, "private")
    /\ \/ Truthy(p.resHeaders, "expires")
       \/ Dir(p.rescc, "public")
       \/ Dir(p.rescc, "max-age")
       \/ Dir(p.rescc, "s-maxage")
       \/ p.status \in defaultCacheableStatusCodes

\* storable()
Storable(p) ==
    /\ ~Dir(p.reqcc, "no-store")
    /\ \/ p.method = "GET"
       \/ p.method = "HEAD"
       \/ p.method = "POST" /\ HasExplicitExpiration(p)
    /\ p.status \in understoodStatuses
    /\ ~Dir(p.rescc, "no-store")
    /\ ~p.isShared \/ ~Dir(p.rescc, "private")
    /\ \/ ~p.isShared
       \/ p.noAuthorization
       \/ AllowsStoringAuthenticated(p)
    /\ \/ Truthy(p.resHeaders, "expires")
       \/ Dir(p.rescc, "public")
       \/ Dir(p.rescc, "max-age")
       \/ Dir(p.rescc, "s-maxage")
       \/ p.status \in defaultCacheableStatusCodes

---------------------------------------------------------------------------
(* Freshness *)

maxClockDrift == Hours(8)

Abs(n) == IF n < 0 THEN 0 - n ELSE n

Max(a, b) == IF a >= b THEN a ELSE b

\* _serverDate()
ServerDate(p) ==
    LET dateValue == DateParse(p.resHeaders, "date")
    IN  IF dateValue # NaN /\ Abs(p.responseTime - dateValue[1]) < maxClockDrift
        THEN dateValue[1]
        ELSE p.responseTime

\* date(): _trustServerDate is undefined on a policy fromObject built
Date(p) == IF p.trustServerDate = Some(TRUE) THEN ServerDate(p) ELSE p.responseTime

\* _ageValue(), in time units
AgeValue(p) ==
    LET ageValue == ParseInt(p.resHeaders["age"])
    IN  IF ageValue = NaN THEN 0 ELSE Seconds(ageValue[1])

\* age() with the resident time subtracted
AgeCountingDown(p, t) ==
    LET age0 == Max(0, p.responseTime - Date(p))
        age1 == IF Truthy(p.resHeaders, "age") /\ AgeValue(p) > age0
                THEN AgeValue(p) ELSE age0
        residentTime == t - p.responseTime
    IN  age1 - residentTime

\* age() at time t
Age(p, t) ==
    LET age0 == Max(0, p.responseTime - Date(p))
        age1 == IF Truthy(p.resHeaders, "age") /\ AgeValue(p) > age0
                THEN AgeValue(p) ELSE age0
        residentTime == t - p.responseTime
    IN  age1 + residentTime

\* maxAge() without the proxy-revalidate test
MaxAgeIgnoringProxyRevalidate(p) ==
    IF ~Storable(p) \/ Dir(p.rescc, "no-cache") THEN Num(0)
    ELSE IF /\ p.isShared
            /\ Truthy(p.resHeaders, "set-cookie")
            /\ ~Dir(p.rescc, "public")
            /\ ~Dir(p.rescc, "immutable") THEN Num(0)
    ELSE IF Get(p.resHeaders, "vary") = Some(<<"*">>) THEN Num(0)
    ELSE IF p.isShared /\ Dir(p.rescc, "s-maxage")
         THEN JsSeconds(DirInt(p.rescc, "s-maxage"))
    ELSE IF Dir(p.rescc, "max-age") THEN JsSeconds(DirInt(p.rescc, "max-age"))
    ELSE LET defaultMinTtl ==
                 IF Dir(p.rescc, "immutable") THEN Seconds(p.immutableMinTtl) ELSE 0
             dateValue == ServerDate(p)
             expires == DateParse(p.resHeaders, "expires")
             lastModified == DateParse(p.resHeaders, "last-modified")
         IN  IF Truthy(p.resHeaders, "expires")
             THEN IF expires = NaN \/ expires[1] < dateValue THEN Num(0)
                  ELSE Num(Max(defaultMinTtl, expires[1] - dateValue))
             ELSE IF /\ "last-modified" \in DOMAIN p.resHeaders
                     /\ lastModified # NaN
                     /\ dateValue > lastModified[1]
             THEN Num(Max(defaultMinTtl,
                          ((dateValue - lastModified[1]) * p.cacheHeuristic) \div 10))
             ELSE Num(defaultMinTtl)

\* maxAge(): a JavaScript number (NaN for a directive parseInt cannot read)
MaxAge(p) ==
    IF ~Storable(p) \/ Dir(p.rescc, "no-cache") THEN Num(0)
    ELSE IF /\ p.isShared
            /\ Truthy(p.resHeaders, "set-cookie")
            /\ ~Dir(p.rescc, "public")
            /\ ~Dir(p.rescc, "immutable") THEN Num(0)
    ELSE IF Get(p.resHeaders, "vary") = Some(<<"*">>) THEN Num(0)
    ELSE IF p.isShared /\ Dir(p.rescc, "proxy-revalidate") THEN Num(0)
    ELSE IF p.isShared /\ Dir(p.rescc, "s-maxage")
         THEN JsSeconds(DirInt(p.rescc, "s-maxage"))
    ELSE IF Dir(p.rescc, "max-age") THEN JsSeconds(DirInt(p.rescc, "max-age"))
    ELSE LET defaultMinTtl ==
                 IF Dir(p.rescc, "immutable") THEN Seconds(p.immutableMinTtl) ELSE 0
             dateValue == ServerDate(p)
             expires == DateParse(p.resHeaders, "expires")
             lastModified == DateParse(p.resHeaders, "last-modified")
         IN  IF Truthy(p.resHeaders, "expires")
             THEN IF expires = NaN \/ expires[1] < dateValue THEN Num(0)
                  ELSE Num(Max(defaultMinTtl, expires[1] - dateValue))
             ELSE IF /\ "last-modified" \in DOMAIN p.resHeaders
                     /\ lastModified # NaN
                     /\ dateValue > lastModified[1]
             THEN Num(Max(defaultMinTtl,
                          ((dateValue - lastModified[1]) * p.cacheHeuristic) \div 10))
             ELSE Num(defaultMinTtl)

\* timeToLive(), in time units
TimeToLive(p, t) == JsMax(Num(0), JsSub(MaxAge(p), Num(Age(p, t))))

\* stale() comparing with < where the code has <=
StaleWhenOlder(p, t) == JsLt(MaxAge(p), Num(Age(p, t)))

\* stale() at time t
Stale(p, t) == JsLe(MaxAge(p), Num(Age(p, t)))

---------------------------------------------------------------------------
(* Matching a new request *)

\* _varyMatches(req) without its test for "*"
VaryMatchesListingStar(p, req) ==
    IF ~Truthy(p.resHeaders, "vary") \/ p.reqHeaders = None THEN TRUE
    ELSE LET fields == SplitWs(ToLowerCase(Trim(p.resHeaders["vary"])), COMMA, << >>)
         IN  \A i \in 1..Len(fields) :
                 GetByStr(req.headers, fields[i]) = GetByStr(p.reqHeaders[1], fields[i])

\* _varyMatches(req) without toLowerCase()
VaryMatchesNamesAsWritten(p, req) ==
    IF ~Truthy(p.resHeaders, "vary") \/ p.reqHeaders = None THEN TRUE
    ELSE IF p.resHeaders["vary"] = <<"*">> THEN FALSE
    ELSE LET fields == SplitWs(Trim(p.resHeaders["vary"]), COMMA, << >>)
         IN  \A i \in 1..Len(fields) :
                 GetByStr(req.headers, fields[i]) = GetByStr(p.reqHeaders[1], fields[i])

\* _varyMatches(req)
VaryMatches(p, req) ==
    IF ~Truthy(p.resHeaders, "vary") \/ p.reqHeaders = None THEN TRUE
    ELSE IF p.resHeaders["vary"] = <<"*">> THEN FALSE
    ELSE LET fields == SplitWs(ToLowerCase(Trim(p.resHeaders["vary"])), COMMA, << >>)
         IN  \A i \in 1..Len(fields) :
                 GetByStr(req.headers, fields[i]) = GetByStr(p.reqHeaders[1], fields[i])

\* _requestMatches(req, allowHeadMethod)
RequestMatches(p, req, allowHeadMethod) ==
    /\ p.url = None \/ p.url = Some("") \/ p.url = req.url
    /\ p.host = Get(req.headers, "host")
    /\ \/ req.method = None
       \/ req.method = Some("")
       \/ Some(p.method) = req.method
       \/ allowHeadMethod /\ req.method = Some("HEAD")
    /\ VaryMatches(p, req)

\* satisfiesWithoutRevalidation(req) with >= for > in its max-stale test
SatisfiesWithMaxStaleInclusive(p, req, t) ==
    LET requestCC == ParseCacheControl(Get(req.headers, "cache-control"))
        age == Num(Age(p, t))
    IN  IF HasDir(requestCC, "no-cache") \/ ShouldRespectPragma(req.headers) THEN FALSE
        ELSE IF /\ Dir(requestCC, "max-age")
                /\ JsGt(age, JsSeconds(DirInt(requestCC, "max-age"))) THEN FALSE
        ELSE IF /\ Dir(requestCC, "min-fresh")
                /\ JsLt(TimeToLive(p, t), JsSeconds(DirInt(requestCC, "min-fresh")))
             THEN FALSE
        ELSE IF /\ Stale(p, t)
                /\ ~ /\ Dir(requestCC, "max-stale")
                     /\ ~Dir(p.rescc, "must-revalidate")
                     /\ \/ requestCC[<<"max-stale">>].flag
                        \/ JsLe(JsSub(age, MaxAge(p)),
                                JsSeconds(DirInt(requestCC, "max-stale")))
             THEN FALSE
        ELSE RequestMatches(p, req, FALSE)

\* satisfiesWithoutRevalidation(req) without the min-fresh test
SatisfiesIgnoringMinFresh(p, req, t) ==
    LET requestCC == ParseCacheControl(Get(req.headers, "cache-control"))
        age == Num(Age(p, t))
    IN  IF HasDir(requestCC, "no-cache") \/ ShouldRespectPragma(req.headers) THEN FALSE
        ELSE IF /\ Dir(requestCC, "max-age")
                /\ JsGt(age, JsSeconds(DirInt(requestCC, "max-age"))) THEN FALSE
        ELSE IF /\ Stale(p, t)
                /\ ~ /\ Dir(requestCC, "max-stale")
                     /\ ~Dir(p.rescc, "must-revalidate")
                     /\ \/ requestCC[<<"max-stale">>].flag
                        \/ JsGt(JsSeconds(DirInt(requestCC, "max-stale")),
                                JsSub(age, MaxAge(p)))
             THEN FALSE
        ELSE RequestMatches(p, req, FALSE)

\* satisfiesWithoutRevalidation(req) serving stale whatever must-revalidate says
SatisfiesIgnoringMustRevalidate(p, req, t) ==
    LET requestCC == ParseCacheControl(Get(req.headers, "cache-control"))
        age == Num(Age(p, t))
    IN  IF HasDir(requestCC, "no-cache") \/ ShouldRespectPragma(req.headers) THEN FALSE
        ELSE IF /\ Dir(requestCC, "max-age")
                /\ JsGt(age, JsSeconds(DirInt(requestCC, "max-age"))) THEN FALSE
        ELSE IF /\ Dir(requestCC, "min-fresh")
                /\ JsLt(TimeToLive(p, t), JsSeconds(DirInt(requestCC, "min-fresh")))
             THEN FALSE
        ELSE IF /\ Stale(p, t)
                /\ ~ /\ Dir(requestCC, "max-stale")
                     /\ \/ requestCC[<<"max-stale">>].flag
                        \/ JsGt(JsSeconds(DirInt(requestCC, "max-stale")),
                                JsSub(age, MaxAge(p)))
             THEN FALSE
        ELSE RequestMatches(p, req, FALSE)

\* satisfiesWithoutRevalidation(req) at time t, for a req that has headers
SatisfiesWithoutRevalidation(p, req, t) ==
    LET requestCC == ParseCacheControl(Get(req.headers, "cache-control"))
        age == Num(Age(p, t))
    IN  IF HasDir(requestCC, "no-cache") \/ ShouldRespectPragma(req.headers) THEN FALSE
        ELSE IF /\ Dir(requestCC, "max-age")
                /\ JsGt(age, JsSeconds(DirInt(requestCC, "max-age"))) THEN FALSE
        ELSE IF /\ Dir(requestCC, "min-fresh")
                /\ JsLt(TimeToLive(p, t), JsSeconds(DirInt(requestCC, "min-fresh")))
             THEN FALSE
        ELSE IF /\ Stale(p, t)
                /\ ~ /\ Dir(requestCC, "max-stale")
                     /\ ~Dir(p.rescc, "must-revalidate")
                     /\ \/ requestCC[<<"max-stale">>].flag
                        \/ JsGt(JsSeconds(DirInt(requestCC, "max-stale")),
                                JsSub(age, MaxAge(p)))
             THEN FALSE
        ELSE RequestMatches(p, req, FALSE)

---------------------------------------------------------------------------
(* Serialization *)

\* toObject()
ToObject(p) ==
    [a     |-> p.noAuthorization,
     ch    |-> p.cacheHeuristic,
     h     |-> p.host,
     imm   |-> p.immutableMinTtl,
     m     |-> p.method,
     reqcc |-> p.reqcc,
     reqh  |-> p.reqHeaders,
     rescc |-> p.rescc,
     resh  |-> p.resHeaders,
     sh    |-> p.isShared,
     st    |-> p.status,
     t     |-> p.responseTime,
     u     |-> p.url,
     v     |-> 1]

\* JSON.parse(JSON.stringify(obj)): a property whose value is undefined is not
\* written; booleans, numbers, strings and nested objects are read back as written
JsonRoundTrip(obj) ==
    [k \in DOMAIN obj \ {x \in {"h", "reqh", "u"} : obj[x] = None} |-> obj[k]]

\* obj[k] for an optional property
Prop(obj, k) == IF k \in DOMAIN obj THEN obj[k] ELSE None

\* fromObject(obj) that does not read reqh
FromObjectLosingRequestHeaders(obj) ==
    [responseTime    |-> obj.t,
     isShared        |-> obj.sh,
     trustServerDate |-> None,
     cacheHeuristic  |-> obj.ch,
     immutableMinTtl |-> IF "imm" \in DOMAIN obj THEN obj.imm ELSE defaultImmutableMinTtl,
     status          |-> obj.st,
     resHeaders      |-> obj.resh,
     rescc           |-> obj.rescc,
     method          |-> obj.m,
     url             |-> Prop(obj, "u"),
     host            |-> Prop(obj, "h"),
     noAuthorization |-> obj.a,
     reqHeaders      |-> None,
     reqcc           |-> obj.reqcc]

\* fromObject(obj), for an obj with v = 1: _trustServerDate is not assigned
FromObject(obj) ==
    [responseTime    |-> obj.t,
     isShared        |-> obj.sh,
     trustServerDate |-> None,
     cacheHeuristic  |-> obj.ch,
     immutableMinTtl |-> IF "imm" \in DOMAIN obj THEN obj.imm ELSE defaultImmutableMinTtl,
     status          |-> obj.st,
     resHeaders      |-> obj.resh,
     rescc           |-> obj.rescc,
     method          |-> obj.m,
     url             |-> Prop(obj, "u"),
     host            |-> Prop(obj, "h"),
     noAuthorization |-> obj.a,
     reqHeaders      |-> Prop(obj, "reqh"),
     reqcc           |-> obj.reqcc]

---------------------------------------------------------------------------
(* Revalidation *)

excludedFromRevalidationUpdate ==
    {"content-encoding", "content-length", "content-range", "transfer-encoding"}

WEAK == "W/"

\* weakValidatorPrefix.test(etag), the prefix being /^\s*W\//
HasWeakValidatorPrefix(etag) == TrimLeft(etag) # << >> /\ Head(TrimLeft(etag)) = WEAK

\* isStronglyValidated(etag)
IsStronglyValidated(etag) == ~HasWeakValidatorPrefix(etag)

\* removeWeakValidatorPrefix(etag)
RemoveWeakValidatorPrefix(etag) ==
    IF HasWeakValidatorPrefix(etag) THEN Tail(TrimLeft(etag)) ELSE etag

\* the matches variable without the test of the status
RevalidationMatchesAnyStatus(p, res) ==
    IF Truthy(res.headers, "etag") /\ IsStronglyValidated(res.headers["etag"])
         THEN /\ Truthy(p.resHeaders, "etag")
              /\ RemoveWeakValidatorPrefix(p.resHeaders["etag"]) = res.headers["etag"]
    ELSE IF Truthy(p.resHeaders, "etag") /\ Truthy(res.headers, "etag")
         THEN RemoveWeakValidatorPrefix(p.resHeaders["etag"])
                  = RemoveWeakValidatorPrefix(res.headers["etag"])
    ELSE IF Truthy(p.resHeaders, "last-modified")
         THEN Some(p.resHeaders["last-modified"]) = Get(res.headers, "last-modified")
    ELSE /\ ~Truthy(p.resHeaders, "etag")
         /\ ~Truthy(p.resHeaders, "last-modified")
         /\ ~Truthy(res.headers, "etag")
         /\ ~Truthy(res.headers, "last-modified")

\* the matches variable comparing a strong ETag with the stored ETag as it is
\* written, its W/ prefix kept
RevalidationMatchesKeepingPrefix(p, res) ==
    IF res.status # None /\ res.status # Some(304) THEN FALSE
    ELSE IF Truthy(res.headers, "etag") /\ IsStronglyValidated(res.headers["etag"])
         THEN /\ Truthy(p.resHeaders, "etag")
              /\ p.resHeaders["etag"] = res.headers["etag"]
    ELSE IF Truthy(p.resHeaders, "etag") /\ Truthy(res.headers, "etag")
         THEN RemoveWeakValidatorPrefix(p.resHeaders["etag"])
                  = RemoveWeakValidatorPrefix(res.headers["etag"])
    ELSE IF Truthy(p.resHeaders, "last-modified")
         THEN Some(p.resHeaders["last-modified"]) = Get(res.headers, "last-modified")
    ELSE /\ ~Truthy(p.resHeaders, "etag")
         /\ ~Truthy(p.resHeaders, "last-modified")
         /\ ~Truthy(res.headers, "etag")
         /\ ~Truthy(res.headers, "last-modified")

\* the matches variable refusing every weak entity tag of the new response
RevalidationMatchesStrongOnly(p, res) ==
    IF res.status # None /\ res.status # Some(304) THEN FALSE
    ELSE IF Truthy(res.headers, "etag") /\ IsStronglyValidated(res.headers["etag"])
         THEN /\ Truthy(p.resHeaders, "etag")
              /\ RemoveWeakValidatorPrefix(p.resHeaders["etag"]) = res.headers["etag"]
    ELSE IF Truthy(p.resHeaders, "etag") /\ Truthy(res.headers, "etag")
         THEN FALSE
    ELSE IF Truthy(p.resHeaders, "last-modified")
         THEN Some(p.resHeaders["last-modified"]) = Get(res.headers, "last-modified")
    ELSE /\ ~Truthy(p.resHeaders, "etag")
         /\ ~Truthy(p.resHeaders, "last-modified")
         /\ ~Truthy(res.headers, "etag")
         /\ ~Truthy(res.headers, "last-modified")

\* the matches variable of revalidatedPolicy(request, response)
RevalidationMatches(p, res) ==
    IF res.status # None /\ res.status # Some(304) THEN FALSE
    ELSE IF Truthy(res.headers, "etag") /\ IsStronglyValidated(res.headers["etag"])
         THEN /\ Truthy(p.resHeaders, "etag")
              /\ RemoveWeakValidatorPrefix(p.resHeaders["etag"]) = res.headers["etag"]
    ELSE IF Truthy(p.resHeaders, "etag") /\ Truthy(res.headers, "etag")
         THEN RemoveWeakValidatorPrefix(p.resHeaders["etag"])
                  = RemoveWeakValidatorPrefix(res.headers["etag"])
    ELSE IF Truthy(p.resHeaders, "last-modified")
         THEN Some(p.resHeaders["last-modified"]) = Get(res.headers, "last-modified")
    ELSE /\ ~Truthy(p.resHeaders, "etag")
         /\ ~Truthy(p.resHeaders, "last-modified")
         /\ ~Truthy(res.headers, "etag")
         /\ ~Truthy(res.headers, "last-modified")

\* the merge taking every header the new response carries
MergedHeadersUpdatingAll(p, res) ==
    [k \in DOMAIN p.resHeaders |->
        IF k \in DOMAIN res.headers THEN res.headers[k] ELSE p.resHeaders[k]]

\* the headers revalidatedPolicy merges for a matching response
MergedHeaders(p, res) ==
    [k \in DOMAIN p.resHeaders |->
        IF k \in DOMAIN res.headers /\ k \notin excludedFromRevalidationUpdate
        THEN res.headers[k]
        ELSE p.resHeaders[k]]

\* revalidatedPolicy(request, response) at time t, for arguments that have headers
RevalidatedPolicy(p, req, res, t) ==
    IF ~RevalidationMatches(p, res)
    THEN [matches  |-> FALSE,
          modified |-> res.status # Some(304),
          policy   |-> NewCachePolicy(req, res, NoOptions, t)]
    ELSE [matches  |-> TRUE,
          modified |-> FALSE,
          policy   |-> NewCachePolicy(req,
                           [status |-> Some(p.status), headers |-> MergedHeaders(p, res)],
                           [shared |-> Some(p.isShared),
                            cacheHeuristic |-> Some(p.cacheHeuristic),
                            immutableMinTimeToLive |-> Some(p.immutableMinTtl),
                            ignoreCargoCult |-> None,
                            trustServerDate |-> p.trustServerDate],
                           t)]

---------------------------------------------------------------------------
(* Headers handed out: responseHeaders() and revalidationHeaders()         *)

hopByHopHeaders ==
    {"connection", "date", "keep-alive", "proxy-authenticate", "proxy-authorization",
     "te", "trailer", "transfer-encoding", "upgrade"}

\* the pieces joined by "," (Array.prototype.join)
RECURSIVE JoinComma(_)
JoinComma(pieces) ==
    IF pieces = << >> THEN << >>
    ELSE IF Tail(pieces) = << >> THEN Head(pieces)
    ELSE Head(pieces) \o <<COMMA>> \o JoinComma(Tail(pieces))

\* the warn-codes 1xx of the model
WarnCodes1xx == {"110", "112", "113", "199"}

\* /^\s*1[0-9][0-9]/.test(warning)
IsWarning1xx(warning) ==
    TrimLeft(warning) # << >> /\ Head(TrimLeft(warning)) \in WarnCodes1xx

\* the end of _copyWithoutHopByHopHeaders: the 1xx warnings are taken out
WithoutWarnings1xx(headers) ==
    IF ~Truthy(headers, "warning") THEN headers
    ELSE LET warnings == SelectSeq(SplitOn(headers["warning"], COMMA, << >>),
                                   LAMBDA w : ~IsWarning1xx(w))
         IN  IF warnings = << >> THEN Delete(headers, "warning")
             ELSE Put(headers, "warning", Trim(JoinComma(warnings)))

\* _copyWithoutHopByHopHeaders(inHeaders)
CopyWithoutHopByHopHeaders(inHeaders) ==
    LET tokens == IF Truthy(inHeaders, "connection")
                  THEN SplitWs(Trim(inHeaders["connection"]), COMMA, << >>)
                  ELSE << >>
        listed == {n \in DOMAIN inHeaders : \E i \in 1..Len(tokens) : tokens[i] = <<n>>}
        kept   == (DOMAIN inHeaders \ hopByHopHeaders) \ listed
    IN  WithoutWarnings1xx([n \in kept |-> inHeaders[n]])

\* two decimal digits
Pad2(n) == IF n < 10 THEN "0" \o ToString(n) ELSE ToString(n)

\* new Date(t).toUTCString(), for the instants of 1 Jan 1970
ToUTCString(t) ==
    LET secs == t \div UnitsPerSecond
    IN  "Thu, 01 Jan 1970 " \o Pad2(secs \div 3600) \o ":" \o Pad2((secs \div 60) % 60)
            \o ":" \o Pad2(secs % 60) \o " GMT"

\* Math.round(age) for an age held in units of time
RoundSeconds(age) == (2 * age + UnitsPerSecond) \div (2 * UnitsPerSecond)

\* 24 * 60 * 60 seconds
warningThreshold == Hours(24)

Warning113 == <<"113", SP, "-", SP, QUOTE, "rfc7234", SP, "5.5.4", QUOTE>>

\* responseHeaders() at time t
ResponseHeaders(p, t) ==
    LET headers == CopyWithoutHopByHopHeaders(p.resHeaders)
        age     == Age(p, t)
        warned  == IF /\ age > warningThreshold
                      /\ ~HasExplicitExpiration(p)
                      /\ JsGt(MaxAge(p), Num(warningThreshold))
                   THEN Put(headers, "warning",
                            IF Truthy(headers, "warning")
                            THEN headers["warning"] \o <<COMMA, SP>> \o Warning113
                            ELSE Warning113)
                   ELSE headers
    IN  Put(Put(warned, "age", <<ToString(RoundSeconds(age))>>),
            "date", <<ToUTCString(t)>>)

\* the entity tags of an If-None-Match that are not weak
StrongETags(ifNoneMatch) ==
    SelectSeq(SplitOn(ifNoneMatch, COMMA, << >>), IsStronglyValidated)

\* the end of revalidationHeaders leaving If-Modified-Since in place
WithoutWeakValidatorsKeepingDate(headers) ==
    IF ~Truthy(headers, "if-none-match") THEN headers
    ELSE IF StrongETags(headers["if-none-match"]) = << >> THEN Delete(headers, "if-none-match")
    ELSE Put(headers, "if-none-match", Trim(JoinComma(StrongETags(headers["if-none-match"]))))

\* the end of revalidationHeaders for a request that forbids weak validators
WithoutWeakValidators(headers) ==
    LET h == Delete(headers, "if-modified-since")
    IN  IF ~Truthy(h, "if-none-match") THEN h
        ELSE IF StrongETags(h["if-none-match"]) = << >> THEN Delete(h, "if-none-match")
        ELSE Put(h, "if-none-match", Trim(JoinComma(StrongETags(h["if-none-match"]))))

\* revalidationHeaders(incomingReq) putting the stored ETag in the place of
\* the entity tags of the request
RevalidationHeadersReplacingTags(p, incomingReq) ==
    LET headers == Delete(CopyWithoutHopByHopHeaders(incomingReq.headers), "if-range")
        tagged  == IF Truthy(p.resHeaders, "etag")
                   THEN Put(headers, "if-none-match", p.resHeaders["etag"])
                   ELSE headers
        forbidsWeakValidators ==
            \/ Truthy(tagged, "accept-ranges")
            \/ Truthy(tagged, "if-match")
            \/ Truthy(tagged, "if-unmodified-since")
            \/ p.method # "" /\ p.method # "GET"
    IN  IF ~RequestMatches(p, incomingReq, TRUE) \/ ~Storable(p)
        THEN Delete(Delete(headers, "if-none-match"), "if-modified-since")
        ELSE IF forbidsWeakValidators THEN WithoutWeakValidators(tagged)
        ELSE IF Truthy(p.resHeaders, "last-modified") /\ ~Truthy(tagged, "if-modified-since")
        THEN Put(tagged, "if-modified-since", p.resHeaders["last-modified"])
        ELSE tagged

\* revalidationHeaders(incomingReq), for a request that has headers
RevalidationHeaders(p, incomingReq) ==
    LET headers == Delete(CopyWithoutHopByHopHeaders(incomingReq.headers), "if-range")
        tagged  == IF Truthy(p.resHeaders, "etag")
                   THEN Put(headers, "if-none-match",
                            IF Truthy(headers, "if-none-match")
                            THEN headers["if-none-match"] \o <<COMMA, SP>> \o p.resHeaders["etag"]
                            ELSE p.resHeaders["etag"])
                   ELSE headers
        forbidsWeakValidators ==
            \/ Truthy(tagged, "accept-ranges")
            \/ Truthy(tagged, "if-match")
            \/ Truthy(tagged, "if-unmodified-since")
            \/ p.method # "" /\ p.method # "GET"
    IN  IF ~RequestMatches(p, incomingReq, TRUE) \/ ~Storable(p)
        THEN Delete(Delete(headers, "if-none-match"), "if-modified-since")
        ELSE IF forbidsWeakValidators THEN WithoutWeakValidators(tagged)
        ELSE IF Truthy(p.resHeaders, "last-modified") /\ ~Truthy(tagged, "if-modified-since")
        THEN Put(tagged, "if-modified-since", p.resHeaders["last-modified"])
        ELSE tagged

---------------------------------------------------------------------------
(* Inputs: header values built from fragments *)

\* at most this many fragments in one Cache-Control header
MaxDirectives == 3

\* the fragments at the indices in chosen, in the palette's order, joined by ", "
RECURSIVE JoinChosen(_, _, _)
JoinChosen(palette, chosen, i) ==
    IF i > Len(palette) THEN << >>
    ELSE LET rest == JoinChosen(palette, chosen, i + 1)
         IN  IF i \notin chosen THEN rest
             ELSE IF rest = << >> THEN palette[i]
             ELSE palette[i] \o <<COMMA, SP>> \o rest

\* every header value made of at most n fragments of the palette
HeaderValues(palette, n) ==
    {JoinChosen(palette, chosen, 1) :
        chosen \in {c \in SUBSET (1..Len(palette)) : Cardinality(c) <= n /\ c # {}}}

\* the headers object with the given optional values: a name whose value is
\* None is left out
HeadersOf(h) == [n \in {x \in DOMAIN h : h[x] # None} |-> h[n][1]]

\* out is the call in progress, with its arguments and its result; Idle when
\* the caller has read the result (calls are made one at a time)
Idle == [op |-> "none"]

TypeOK ==
    /\ now \in Nat
    /\ policy.responseTime <= now
    /\ out.op \in {"none", "storable", "maxAge", "satisfiesWithoutRevalidation",
                   "fromObject", "revalidatedPolicy", "responseHeaders",
                   "revalidationHeaders", "timeToLive", "stale", "new", "age"}

---------------------------------------------------------------------------
(* Storability: every request and response of StorableRequests and         *)
(* StorableResponses, under every option of StorableOptions                *)

ResponseDirectives ==
    << <<"no-store">>, <<"private">>, <<"public">>, <<"max-age", EQ, "10">>,
       <<"s-maxage", EQ, "10">>, <<"must-revalidate">>, <<"no-cache">>,
       <<"pre-check", EQ, "0", COMMA, SP, "post-check", EQ, "0">>,
       <<"immutable">> >>

StorableRequests ==
    {[method |-> m, url |-> Some("/"),
      headers |-> HeadersOf([host |-> Some(<<"a.example">>), authorization |-> a])] :
        m \in {None, Some("GET"), Some("HEAD"), Some("POST"), Some("PUT")},
        a \in {None, Some(<<"Basic", SP, "abc">>)}}

StorableResponses ==
    {[status |-> st,
      headers |-> HeadersOf([expires |-> e]) @@ cc] :
        st \in {None, Some(200), Some(206), Some(302), Some(308), Some(304), Some(500)},
        e \in {None, Some(<<"Thu, 01 Jan 1970 10:00:05 GMT">>)},
        cc \in {NoHeaders} \cup
               {[n \in {"cache-control"} |-> v] :
                    v \in HeaderValues(ResponseDirectives, MaxDirectives)}}

StorableOptions ==
    {[NoOptions EXCEPT !.shared = sh, !.ignoreCargoCult = icc] :
        sh \in {None, Some(FALSE)}, icc \in {None, Some(TRUE)}}

InitStorable ==
    /\ now = StartTime
    /\ request \in StorableRequests
    /\ response \in StorableResponses
    /\ options \in StorableOptions
    /\ policy = NewCachePolicy(request, response, options, now)
    /\ out = Idle

\* the caller asks storable()
CallStorable ==
    /\ out = Idle
    /\ out' = [op |-> "storable", result |-> Storable(policy)]
    /\ UNCHANGED <<now, request, response, options, policy>>

\* the caller asks maxAge()
CallMaxAge ==
    /\ out = Idle
    /\ out' = [op |-> "maxAge", result |-> MaxAge(policy)]
    /\ UNCHANGED <<now, request, response, options, policy>>

NextStorable == CallStorable \/ CallMaxAge

SpecStorable == InitStorable /\ [][NextStorable]_vars

---------------------------------------------------------------------------
(* The clock, and the calls the specifications share *)

\* the clock advances by half a second at a time
TickLength == Seconds(1) \div 2

\* at most this many advances of the clock when freshness is explored
MaxTicks == 6

\* at most this many advances of the clock when matching is explored
MatchTicks == 1

\* Date.now() advances; the result of the last call has been read by then
Tick(max) ==
    /\ now < StartTime + max * TickLength
    /\ now' = now + TickLength
    /\ out' = Idle
    /\ UNCHANGED <<request, response, options, policy>>

\* the caller asks satisfiesWithoutRevalidation(req) for a request of reqs
CallSatisfies(reqs) ==
    /\ out = Idle
    /\ \E req \in reqs :
        /\ out' = [op |-> "satisfiesWithoutRevalidation", req |-> req, at |-> now,
                   result |-> SatisfiesWithoutRevalidation(policy, req, now)]
        /\ UNCHANGED <<now, request, response, options, policy>>

---------------------------------------------------------------------------
(* Freshness: one stored GET, responses of every age and lifetime, new     *)
(* requests with every request directive, as the clock advances            *)

SimpleRequest ==
    [method |-> Some("GET"), url |-> Some("/"),
     headers |-> [host |-> <<"a.example">>]]

StaleResponseDirectives ==
    << <<"max-age", EQ, "2">>, <<"must-revalidate">>, <<"no-cache">> >>

StaleResponses ==
    {[status |-> None, headers |-> HeadersOf([age |-> a, date |-> d]) @@ cc] :
        a \in {None, Some(<<"1">>), Some(<<"3">>)},
        d \in {None, Some(<<"Thu, 01 Jan 1970 09:59:58 GMT">>)},
        cc \in {NoHeaders} \cup
               {[n \in {"cache-control"} |-> v] :
                    v \in HeaderValues(StaleResponseDirectives, MaxDirectives)}}

StaleRequestDirectives ==
    << <<"max-stale">>, <<"max-stale", EQ, "1">>, <<"no-cache">>,
       <<"max-age", EQ, "1">>, <<"min-fresh", EQ, "1">>, <<"fine">> >>

StaleRequests ==
    {[SimpleRequest EXCEPT !.headers = SimpleRequest.headers @@ HeadersOf([pragma |-> pr]) @@ cc] :
        pr \in {None, Some(<<"no-cache">>)},
        cc \in {NoHeaders} \cup
               {[n \in {"cache-control"} |-> v] :
                    v \in HeaderValues(StaleRequestDirectives, MaxDirectives)}}

InitStale ==
    /\ now = StartTime
    /\ request = SimpleRequest
    /\ response \in StaleResponses
    /\ options \in {NoOptions, [NoOptions EXCEPT !.shared = Some(FALSE)]}
    /\ policy = NewCachePolicy(request, response, options, now)
    /\ out = Idle

NextStale == Tick(MaxTicks) \/ CallSatisfies(StaleRequests)

SpecStale == InitStale /\ [][NextStale]_vars

---------------------------------------------------------------------------
(* Matching: stored and new requests of every method, URL, Host and        *)
(* Vary-selected header, against a response that stays fresh               *)

VaryValues ==
    {None, Some(<< >>), Some(<<"*">>), Some(<<"weather">>),
     Some(<<SP, "Weather", SP, COMMA, SP, "SUN", SP>>),
     Some(<<"sun", COMMA, "weather">>)}

MatchStoredRequests ==
    {[method |-> m, url |-> u,
      headers |-> HeadersOf([host |-> h, weather |-> w, sun |-> sn])] :
        m \in {None, Some("HEAD"), Some("POST")},
        u \in {None, Some("/")},
        h \in {None, Some(<<"a.example">>)},
        w \in {None, Some(<<"nice">>)},
        sn \in {None, Some(<<"up">>)}}

MatchResponses ==
    {[status |-> None,
      headers |-> [n \in {"cache-control"} |-> <<"max-age", EQ, "10">>]
                  @@ HeadersOf([vary |-> v])] :
        v \in VaryValues}

MatchRequests ==
    {[method |-> m, url |-> u,
      headers |-> HeadersOf([host |-> h, weather |-> w, sun |-> sn]) @@ cc] :
        m \in {None, Some("GET"), Some("HEAD"), Some("POST")},
        u \in {None, Some("/"), Some("/b")},
        h \in {None, Some(<<"a.example">>)},
        w \in {None, Some(<<"nice">>), Some(<<"Nice">>)},
        sn \in {None, Some(<<"up">>)},
        cc \in {NoHeaders, [n \in {"cache-control"} |-> <<"max-stale">>]}}

InitMatch ==
    /\ now = StartTime
    /\ request \in MatchStoredRequests
    /\ response \in MatchResponses
    /\ options = NoOptions
    /\ policy = NewCachePolicy(request, response, options, now)
    /\ out = Idle

NextMatch == Tick(MatchTicks) \/ CallSatisfies(MatchRequests) \/ CallMaxAge

SpecMatch == InitMatch /\ [][NextMatch]_vars

---------------------------------------------------------------------------
(* Serialization: policies of every Date, lifetime and option, written     *)
(* with toObject() and read back with fromObject() as the clock advances   *)

RoundTripRequests ==
    {[SimpleRequest EXCEPT !.headers = SimpleRequest.headers @@ HeadersOf([weather |-> w]) @@ cc] :
        w \in {None, Some(<<"nice">>)},
        cc \in {NoHeaders, [n \in {"cache-control"} |-> <<"max-stale", EQ, "1">>]}}

RoundTripResponses ==
    {[status |-> None,
      headers |-> HeadersOf([date |-> d, expires |-> e, vary |-> v]) @@ HeadersOf(lm) @@ cc] :
        d \in {None, Some(<<"Thu, 01 Jan 1970 09:59:58 GMT">>),
               Some(<<"Thu, 01 Jan 1970 01:00:00 GMT">>), Some(<<"garbage">>)},
        e \in {None, Some(<<"Thu, 01 Jan 1970 10:00:02 GMT">>)},
        v \in {None, Some(<<"weather">>)},
        lm \in {NoHeaders,
                [n \in {"last-modified"} |-> Some(<<"Thu, 01 Jan 1970 09:59:40 GMT">>)]},
        cc \in {NoHeaders, [n \in {"cache-control"} |-> <<"max-age", EQ, "2">>]}}

RoundTripOptions ==
    {[NoOptions EXCEPT !.shared = sh, !.trustServerDate = tsd, !.cacheHeuristic = ch] :
        sh \in {None, Some(FALSE)},
        tsd \in {None, Some(FALSE)},
        ch \in {None, Some(5)}}

InitRoundTrip ==
    /\ now = StartTime
    /\ request \in {r \in RoundTripRequests : "cache-control" \notin DOMAIN r.headers}
    /\ response \in RoundTripResponses
    /\ options \in RoundTripOptions
    /\ policy = NewCachePolicy(request, response, options, now)
    /\ out = Idle

\* the caller builds fromObject(JSON.parse(JSON.stringify(policy.toObject())))
CallRoundTrip ==
    /\ out = Idle
    /\ JsonRoundTrip(ToObject(policy)).v = 1
    /\ out' = [op |-> "fromObject", at |-> now,
               result |-> FromObject(JsonRoundTrip(ToObject(policy)))]
    /\ UNCHANGED <<now, request, response, options, policy>>

NextRoundTrip == Tick(MaxTicks) \/ CallRoundTrip

SpecRoundTrip == InitRoundTrip /\ [][NextRoundTrip]_vars

---------------------------------------------------------------------------
(* Revalidation: stored responses with every validator, revalidation       *)
(* responses of every status and validator                                 *)

\* at most this many advances of the clock when revalidation is explored
RevalidateTicks == 2

ETagV1 == <<QUOTE, "v1", QUOTE>>

ETagV2 == <<QUOTE, "v2", QUOTE>>

Weak(etag) == <<WEAK>> \o etag

LastModified1 == <<"Thu, 01 Jan 1970 09:59:40 GMT">>

LastModified2 == <<"Thu, 01 Jan 1970 09:59:58 GMT">>

RevalidateStoredResponses ==
    {[status |-> None,
      headers |-> [n \in {"cache-control"} |-> <<"max-age", EQ, "2">>]
                  @@ HeadersOf([etag |-> e]) @@ HeadersOf(lm)] :
        e \in {None, Some(<< >>), Some(ETagV1), Some(Weak(ETagV1))},
        lm \in {NoHeaders, [n \in {"last-modified"} |-> Some(LastModified1)]}}

RevalidationResponses ==
    {[status |-> st, headers |-> HeadersOf([etag |-> e]) @@ HeadersOf(lm)] :
        st \in {None, Some(200), Some(304)},
        e \in {None, Some(ETagV1), Some(Weak(ETagV1)), Some(ETagV2), Some(Weak(ETagV2))},
        lm \in {NoHeaders, [n \in {"last-modified"} |-> Some(LastModified1)],
                [n \in {"last-modified"} |-> Some(LastModified2)]}}

InitRevalidate ==
    /\ now = StartTime
    /\ request = SimpleRequest
    /\ response \in RevalidateStoredResponses
    /\ options \in {NoOptions, [NoOptions EXCEPT !.shared = Some(FALSE)]}
    /\ policy = NewCachePolicy(request, response, options, now)
    /\ out = Idle

\* the caller asks revalidatedPolicy(req, res) with the origin's response
CallRevalidatedPolicy(reqs, ress) ==
    /\ out = Idle
    /\ \E req \in reqs, res \in ress :
        /\ out' = [op |-> "revalidatedPolicy", req |-> req, res |-> res, at |-> now,
                   result |-> RevalidatedPolicy(policy, req, res, now)]
        /\ UNCHANGED <<now, request, response, options, policy>>

\* the caller replaces the stored policy by the one revalidatedPolicy returned,
\* built from the request and response it was given
Adopt ==
    /\ out.op = "revalidatedPolicy"
    /\ policy' = out.result.policy
    /\ request' = out.req
    /\ response' = IF out.result.matches
                   THEN [status |-> Some(policy.status),
                         headers |-> MergedHeaders(policy, out.res)]
                   ELSE out.res
    /\ out' = Idle
    /\ UNCHANGED <<now, options>>

NextRevalidate ==
    \/ Tick(RevalidateTicks)
    \/ CallRevalidatedPolicy({SimpleRequest}, RevalidationResponses)
    \/ Adopt

SpecRevalidate == InitRevalidate /\ [][NextRevalidate]_vars

---------------------------------------------------------------------------
(* Update by revalidation: stored responses with validators and other      *)
(* headers, revalidation responses that bring headers of their own, and    *)
(* the calls that read a policy                                            *)

UpdateStoredResponses ==
    {[status |-> None,
      headers |-> [n \in {"cache-control", "content-type"} |->
                      IF n = "cache-control" THEN <<"max-age", EQ, "2">>
                      ELSE <<"text/plain">>]
                  @@ HeadersOf([etag |-> e, connection |-> c]) @@ HeadersOf(lm) @@ HeadersOf(cl)] :
        e \in {None, Some(ETagV1), Some(Weak(ETagV1))},
        c \in {None, Some(<<"etag">>)},
        lm \in {NoHeaders, [n \in {"last-modified"} |-> Some(LastModified1)]},
        cl \in {NoHeaders, [n \in {"content-length"} |-> Some(<<"5">>)]}}

UpdateResponses ==
    {[status |-> st,
      headers |-> HeadersOf([etag |-> e]) @@ HeadersOf(lm) @@ HeadersOf(cl) @@ HeadersOf(ct)
                  @@ HeadersOf(xn)] :
        st \in {None, Some(200), Some(304)},
        e \in {None, Some(ETagV1), Some(Weak(ETagV1)), Some(ETagV2)},
        lm \in {NoHeaders, [n \in {"last-modified"} |-> Some(LastModified1)],
                [n \in {"last-modified"} |-> Some(LastModified2)]},
        cl \in {NoHeaders, [n \in {"content-length"} |-> Some(<<"9">>)]},
        ct \in {NoHeaders, [n \in {"content-type"} |-> Some(<<"text/html">>)]},
        xn \in {NoHeaders, [n \in {"x-new"} |-> Some(<<"1">>)]}}

\* the requests a caller presents to a policy stored for SimpleRequest
UpdateRequests ==
    {[SimpleRequest EXCEPT !.headers = SimpleRequest.headers @@ HeadersOf(inm) @@ cc] :
        inm \in {NoHeaders, [n \in {"if-none-match"} |-> Some(ETagV2)]},
        cc \in {NoHeaders, [n \in {"cache-control"} |-> <<"max-stale">>]}}

InitUpdate ==
    /\ now = StartTime
    /\ request = SimpleRequest
    /\ response \in UpdateStoredResponses
    /\ options \in {NoOptions, [NoOptions EXCEPT !.shared = Some(FALSE)]}
    /\ policy = NewCachePolicy(request, response, options, now)
    /\ out = Idle

\* responseHeaders() writing the headers it hands out into the policy
CallResponseHeadersInPlace ==
    /\ out = Idle
    /\ out' = [op |-> "responseHeaders", at |-> now, result |-> ResponseHeaders(policy, now)]
    /\ policy' = [policy EXCEPT !.resHeaders = ResponseHeaders(policy, now)]
    /\ UNCHANGED <<now, request, response, options>>

\* the caller asks responseHeaders()
CallResponseHeaders ==
    /\ out = Idle
    /\ out' = [op |-> "responseHeaders", at |-> now, result |-> ResponseHeaders(policy, now)]
    /\ UNCHANGED <<now, request, response, options, policy>>

\* the caller asks revalidationHeaders(req) for a request of reqs
CallRevalidationHeaders(reqs) ==
    /\ out = Idle
    /\ \E req \in reqs :
        /\ out' = [op |-> "revalidationHeaders", req |-> req, at |-> now,
                   result |-> RevalidationHeaders(policy, req)]
        /\ UNCHANGED <<now, request, response, options, policy>>

NextUpdate ==
    \/ Tick(RevalidateTicks)
    \/ CallRevalidatedPolicy(UpdateRequests, UpdateResponses)
    \/ CallSatisfies(UpdateRequests)
    \/ CallRevalidationHeaders(UpdateRequests)
    \/ CallResponseHeaders

SpecUpdate == InitUpdate /\ [][NextUpdate]_vars

---------------------------------------------------------------------------
(* Validators sent: stored requests of every method, stored responses      *)
(* with every validator, incoming requests with validators of their own    *)

ValidatorStoredRequests ==
    {[method |-> Some(m), url |-> Some("/"),
      headers |-> HeadersOf([host |-> Some(<<"a.example">>), weather |-> Some(<<"nice">>)])] :
        m \in {"GET", "HEAD", "POST"}}

ValidatorStoredResponses ==
    {[status |-> None,
      headers |-> HeadersOf([etag |-> e, vary |-> v]) @@ HeadersOf(lm) @@ cc] :
        e \in {None, Some(ETagV1), Some(Weak(ETagV1))},
        v \in {None, Some(<<"weather">>)},
        lm \in {NoHeaders, [n \in {"last-modified"} |-> Some(LastModified1)]},
        cc \in {NoHeaders, [n \in {"cache-control"} |-> <<"max-age", EQ, "2">>],
                [n \in {"cache-control"} |-> <<"no-store">>]}}

\* the conditional header an incoming request may carry besides the validators
ValidatorPreconditions ==
    {NoHeaders,
     [n \in {"if-match"} |-> ETagV2],
     [n \in {"accept-ranges"} |-> <<"bytes">>],
     [n \in {"if-unmodified-since"} |-> LastModified2],
     [n \in {"if-range"} |-> ETagV2]}

ValidatorRequests ==
    {[method |-> m, url |-> Some(u),
      headers |-> HeadersOf([host |-> Some(<<h>>), weather |-> Some(<<w>>), connection |-> c])
                  @@ HeadersOf(inm) @@ HeadersOf(ims) @@ pre] :
        m \in {None, Some("GET"), Some("HEAD"), Some("POST")},
        u \in {"/", "/other"},
        h \in {"a.example", "b.example"},
        w \in {"nice", "bad"},
        c \in {None, Some(<<"if-match">>), Some(<<"if-none-match">>)},
        inm \in {NoHeaders, [n \in {"if-none-match"} |-> Some(ETagV2)],
                 [n \in {"if-none-match"} |-> Some(Weak(ETagV2))],
                 [n \in {"if-none-match"} |-> Some(Weak(ETagV2) \o <<COMMA, SP>> \o ETagV2)]},
        ims \in {NoHeaders, [n \in {"if-modified-since"} |-> Some(LastModified2)]},
        pre \in ValidatorPreconditions}

InitValidators ==
    /\ now = StartTime
    /\ request \in ValidatorStoredRequests
    /\ response \in ValidatorStoredResponses
    /\ options = NoOptions
    /\ policy = NewCachePolicy(request, response, options, now)
    /\ out = Idle

NextValidators == CallRevalidationHeaders(ValidatorRequests)

SpecValidators == InitValidators /\ [][NextValidators]_vars

---------------------------------------------------------------------------
(* Lifetimes: responses with every source of a freshness lifetime and      *)
(* every reason for a lifetime of zero, under a shared and a private cache *)

FreshResponseDirectives ==
    << <<"s-maxage", EQ, "4">>, <<"max-age", EQ, "3">>, <<"no-cache">>,
       <<"public">>, <<"immutable">>, <<"proxy-revalidate">> >>

\* the Cache-Control values of the stale-if-error and stale-while-revalidate
\* time-to-live tests
GraceCacheControls ==
    { <<"max-age", EQ, "60", COMMA, SP, "stale-if-error", EQ, "200">>,
      <<"max-age", EQ, "60", COMMA, SP, "stale-while-revalidate", EQ, "200">> }

FreshResponses ==
    {[status |-> st,
      headers |-> HeadersOf([expires |-> e, age |-> a, vary |-> v] @@
                            [n \in {"last-modified"} |-> lm] @@
                            [n \in {"set-cookie"} |-> sc]) @@ cc] :
        st \in {None, Some(302)},
        e \in {None, Some(<<"Thu, 01 Jan 1970 10:00:05 GMT">>),
               Some(<<"Thu, 01 Jan 1970 09:59:58 GMT">>)},
        a \in {None, Some(<<"1">>)},
        v \in {None, Some(<<"*">>)},
        lm \in {None, Some(<<"Thu, 01 Jan 1970 09:59:40 GMT">>)},
        sc \in {None, Some(<<"a", EQ, "b">>)},
        cc \in {NoHeaders} \cup
               {[n \in {"cache-control"} |-> v2] :
                    v2 \in HeaderValues(FreshResponseDirectives, MaxDirectives)
                           \cup GraceCacheControls}}

InitFresh ==
    /\ now = StartTime
    /\ request = SimpleRequest
    /\ response \in FreshResponses
    /\ options \in {NoOptions, [NoOptions EXCEPT !.shared = Some(FALSE)]}
    /\ policy = NewCachePolicy(request, response, options, now)
    /\ out = Idle

\* the caller asks timeToLive()
CallTimeToLive ==
    /\ out = Idle
    /\ out' = [op |-> "timeToLive", at |-> now, result |-> TimeToLive(policy, now)]
    /\ UNCHANGED <<now, request, response, options, policy>>

\* the caller asks stale()
CallStale ==
    /\ out = Idle
    /\ out' = [op |-> "stale", at |-> now, result |-> Stale(policy, now)]
    /\ UNCHANGED <<now, request, response, options, policy>>

NextFresh == Tick(MaxTicks) \/ CallMaxAge \/ CallTimeToLive \/ CallStale

SpecFresh == InitFresh /\ [][NextFresh]_vars

---------------------------------------------------------------------------
(* Arguments: the constructor, satisfiesWithoutRevalidation,               *)
(* revalidatedPolicy and fromObject called with arguments that are         *)
(* missing or have no headers, beside arguments that are complete          *)

\* the outcome of a call that threw an Error with the given message
Thrown(message) == [threw |-> TRUE, error |-> message]

\* the outcome of a call that returned a value
Returned(value) == [threw |-> FALSE, value |-> value]

\* !arg || !arg.headers, for an argument the caller may leave out
LacksHeaders(arg) == arg = None \/ "headers" \notin DOMAIN arg[1]

\* assertRequestHasHeaders(req)
AssertRequestHasHeaders(req) ==
    IF LacksHeaders(req) THEN Thrown("Request headers missing") ELSE Returned(TRUE)

\* new CachePolicy(req, res, opts) at time t
Constructor(req, res, opts, t) ==
    IF LacksHeaders(res) THEN Thrown("Response headers missing")
    ELSE IF AssertRequestHasHeaders(req).threw THEN AssertRequestHasHeaders(req)
    ELSE Returned(NewCachePolicy(req[1], res[1], opts, t))

\* policy.satisfiesWithoutRevalidation(req) at time t
SatisfiesWithoutRevalidationCall(p, req, t) ==
    IF AssertRequestHasHeaders(req).threw THEN AssertRequestHasHeaders(req)
    ELSE Returned(SatisfiesWithoutRevalidation(p, req[1], t))

\* revalidatedPolicy handing the receiver back when there is no response
RevalidatedPolicyCallKeepingReceiver(p, req, res, t) ==
    IF AssertRequestHasHeaders(req).threw THEN AssertRequestHasHeaders(req)
    ELSE IF LacksHeaders(res)
    THEN Returned([matches |-> FALSE, modified |-> FALSE, policy |-> p])
    ELSE Returned(RevalidatedPolicy(p, req[1], res[1], t))

\* policy.revalidatedPolicy(request, response) at time t
RevalidatedPolicyCall(p, req, res, t) ==
    IF AssertRequestHasHeaders(req).threw THEN AssertRequestHasHeaders(req)
    ELSE IF LacksHeaders(res) THEN Thrown("Response headers missing")
    ELSE Returned(RevalidatedPolicy(p, req[1], res[1], t))

\* CachePolicy.fromObject(obj)
FromObjectCall(obj) ==
    IF obj = None \/ "v" \notin DOMAIN obj[1] \/ obj[1].v # 1
    THEN Thrown("Invalid serialization")
    ELSE Returned(FromObject(obj[1]))

\* the stored responses of the stale-if-error revalidation tests, and a
\* response without directives
ArgumentStoredResponses ==
    {[status |-> None, headers |-> NoHeaders],
     [status |-> None,
      headers |-> [n \in {"cache-control"} |->
                      <<"max-age", EQ, "200", COMMA, SP, "stale-if-error", EQ, "300">>]]}

\* a request argument: left out, an object without headers, a complete request
ArgumentRequests ==
    {None, Some([method |-> Some("GET"), url |-> Some("/")]), Some(SimpleRequest)}

\* a response argument: left out, an object without headers, server errors,
\* a 304 and a 200 with headers
ArgumentResponses ==
    {None, Some([status |-> Some(500)])} \cup
    {Some([status |-> Some(st), headers |-> NoHeaders]) :
        st \in {500, 502, 503, 504, 304, 200}}

\* an argument of fromObject: left out, an empty object, the policy's own
\* serialization, and that serialization with another version tag
ArgumentObjects(p) ==
    {None, Some(NoHeaders), Some(JsonRoundTrip(ToObject(p))),
     Some([JsonRoundTrip(ToObject(p)) EXCEPT !.v = 2])}

InitArguments ==
    /\ now = StartTime
    /\ request = SimpleRequest
    /\ response \in ArgumentStoredResponses
    /\ options = NoOptions
    /\ policy = NewCachePolicy(request, response, options, now)
    /\ out = Idle

\* the caller constructs another policy
CallConstructor ==
    /\ out = Idle
    /\ \E req \in ArgumentRequests, res \in ArgumentResponses :
        /\ out' = [op |-> "new", req |-> req, res |-> res, at |-> now,
                   outcome |-> Constructor(req, res, NoOptions, now)]
        /\ UNCHANGED <<now, request, response, options, policy>>

\* the caller asks satisfiesWithoutRevalidation with an argument of ArgumentRequests
CallSatisfiesWith ==
    /\ out = Idle
    /\ \E req \in ArgumentRequests :
        /\ out' = [op |-> "satisfiesWithoutRevalidation", req |-> req, at |-> now,
                   outcome |-> SatisfiesWithoutRevalidationCall(policy, req, now)]
        /\ UNCHANGED <<now, request, response, options, policy>>

\* the caller asks revalidatedPolicy with arguments of ArgumentRequests and
\* ArgumentResponses
CallRevalidatedPolicyWith ==
    /\ out = Idle
    /\ \E req \in ArgumentRequests, res \in ArgumentResponses :
        /\ out' = [op |-> "revalidatedPolicy", req |-> req, res |-> res, at |-> now,
                   outcome |-> RevalidatedPolicyCall(policy, req, res, now)]
        /\ UNCHANGED <<now, request, response, options, policy>>

\* the caller asks fromObject with an argument of ArgumentObjects
CallFromObjectWith ==
    /\ out = Idle
    /\ \E obj \in ArgumentObjects(policy) :
        /\ out' = [op |-> "fromObject", obj |-> obj, at |-> now,
                   outcome |-> FromObjectCall(obj)]
        /\ UNCHANGED <<now, request, response, options, policy>>

NextArguments ==
    \/ Tick(RevalidateTicks)
    \/ CallConstructor
    \/ CallSatisfiesWith
    \/ CallRevalidatedPolicyWith
    \/ CallFromObjectWith

SpecArguments == InitArguments /\ [][NextArguments]_vars

---------------------------------------------------------------------------
(* Serving stale: the max-stale scenario, a response of lifetime 120 that  *)
(* arrives older than that, asked about for up to MaxWaits half minutes    *)

\* at most this many half-minute waits
MaxWaits == 3

ServeStaleResponses ==
    {[status |-> None,
      headers |-> [n \in {"cache-control", "age"} |->
                      IF n = "age" THEN a ELSE <<"max-age", EQ, "120">> \o mr]] :
        a \in {<<"240">>, <<"360">>},
        mr \in {<< >>, <<COMMA, SP, "must-revalidate">>}}

ServeStaleRequests ==
    {SimpleRequest} \cup
    {[SimpleRequest EXCEPT !.headers = SimpleRequest.headers @@
                                       [n \in {"cache-control"} |-> v]] :
        v \in {<<"max-stale", EQ, "180">>, <<"max-stale">>}}

InitServeStale ==
    /\ now = StartTime
    /\ request = SimpleRequest
    /\ response \in ServeStaleResponses
    /\ options \in {NoOptions, [NoOptions EXCEPT !.shared = Some(FALSE)]}
    /\ policy = NewCachePolicy(request, response, options, now)
    /\ out = Idle

\* Date.now() advances by half a minute
Wait ==
    /\ now < StartTime + MaxWaits * Seconds(30)
    /\ now' = now + Seconds(30)
    /\ out' = Idle
    /\ UNCHANGED <<request, response, options, policy>>

NextServeStale == Wait \/ CallStale \/ CallSatisfies(ServeStaleRequests)

SpecServeStale == InitServeStale /\ [][NextServeStale]_vars

---------------------------------------------------------------------------
(* Headers served: stored responses with hop-by-hop headers, a Connection  *)
(* header, warnings and ages up to a day, asked for their headers again    *)
(* and again as time passes                                                *)

\* the stored responses of 'remove hop headers', with and without each
\* header, a Connection token in another case, a day-old response and one
\* last modified a month before
ServedResponses ==
    {[status |-> None,
      headers |-> HeadersOf([age |-> a, connection |-> c, custom |-> cu, oompa |-> o,
                             te |-> t, warning |-> w]) @@
                  HeadersOf([n \in {"cache-control"} |-> cc]) @@
                  HeadersOf([n \in {"last-modified"} |-> lm])] :
        a \in {None, Some(<<"10">>), Some(<<"86400">>)},
        c \in {None, Some(<<"close", COMMA, SP, "oompa", COMMA, SP, "header">>),
               Some(<<"Oompa">>)},
        cu \in {None, Some(<<"header">>)},
        o \in {None, Some(<<"lumpa">>)},
        t \in {None, Some(<<"deflate">>)},
        w \in {None, Some(<<"299", SP, "-", COMMA, SP, "199", SP, "-">>)},
        cc \in {None, Some(<<"public", COMMA, SP, "max-age", EQ, "300">>)},
        lm \in {None, Some(<<"Mon, 01 Dec 1969 00:00:00 GMT">>)}}

InitServed ==
    /\ now = StartTime
    /\ request = SimpleRequest
    /\ response \in ServedResponses
    /\ options = NoOptions
    /\ policy = NewCachePolicy(request, response, options, now)
    /\ out = Idle

\* Date.now() advances while the caller holds on to the headers it was given
Pass(max) ==
    /\ now < StartTime + max * TickLength
    /\ now' = now + TickLength
    /\ UNCHANGED <<request, response, options, policy, out>>

\* responseHeaders() asked again, writing the headers it hands out into the
\* policy
CallResponseHeadersAgainInPlace ==
    /\ out.op = "responseHeaders"
    /\ out' = [op |-> "responseHeaders", at |-> now, result |-> ResponseHeaders(policy, now),
               earlier |-> [at |-> out.at, result |-> out.result]]
    /\ policy' = [policy EXCEPT !.resHeaders = ResponseHeaders(policy, now)]
    /\ UNCHANGED <<now, request, response, options>>

\* the caller asks responseHeaders() again and keeps the headers of the call
\* before beside the new ones
CallResponseHeadersAgain ==
    /\ out.op = "responseHeaders"
    /\ out' = [op |-> "responseHeaders", at |-> now, result |-> ResponseHeaders(policy, now),
               earlier |-> [at |-> out.at, result |-> out.result]]
    /\ UNCHANGED <<now, request, response, options, policy>>

NextServed == Pass(MaxTicks) \/ CallResponseHeaders \/ CallResponseHeadersAgain

SpecServed == InitServed /\ [][NextServed]_vars

---------------------------------------------------------------------------
(* Malformed numbers: an Age header and lifetime directives that are no    *)
(* numbers, beside ones that are                                           *)

\* the response of 'Bogus age ignored', with the lifetime malformed as well
MalformedResponses ==
    {[status |-> None,
      headers |-> HeadersOf([age |-> a]) @@ [n \in {"cache-control"} |-> cc]] :
        a \in {None, Some(<<"golden">>), Some(<<"1">>)},
        cc \in {<<"max-age", EQ, "2">>, <<"max-age", EQ, "golden">>,
                <<"s-maxage", EQ, "golden">>,
                <<"s-maxage", EQ, "golden", COMMA, SP, "max-age", EQ, "2">>}}

InitMalformed ==
    /\ now = StartTime
    /\ request = SimpleRequest
    /\ response \in MalformedResponses
    /\ options \in {NoOptions, [NoOptions EXCEPT !.shared = Some(FALSE)]}
    /\ policy = NewCachePolicy(request, response, options, now)
    /\ out = Idle

\* the caller asks age()
CallAge ==
    /\ out = Idle
    /\ out' = [op |-> "age", at |-> now, result |-> Age(policy, now)]
    /\ UNCHANGED <<now, request, response, options, policy>>

NextMalformed == Tick(MaxTicks) \/ CallAge \/ CallMaxAge \/ CallStale

SpecMalformed == InitMalformed /\ [][NextMalformed]_vars

\* the clock keeps advancing, as far as the model lets it
SpecMalformedLive == SpecMalformed /\ WF_vars(Tick(MaxTicks))

---------------------------------------------------------------------------
(* Directives: responses whose Cache-Control repeats, quotes and mixes     *)
(* directives, with and without Pragma, Expires and Last-Modified, built   *)
(* into a policy with and without ignoreCargoCult                          *)

DirectiveFragments ==
    << <<"pre-check", EQ, "0", COMMA, SP, "post-check", EQ, "0">>, <<"no-store">>,
       <<"no-cache">>, <<"must-revalidate">>, <<"max-age", EQ, "2">>, <<"custom">>,
       <<"foo", EQ, QUOTE, "bar", QUOTE>>,
       <<"max-age", SP, EQ, SP, QUOTE, "5", QUOTE>> >>

\* the responses of the pre-check, pragma and syntax tests
DirectiveResponses ==
    {[status |-> None,
      headers |-> HeadersOf([pragma |-> pr, expires |-> e]) @@
                  HeadersOf([n \in {"last-modified"} |-> lm]) @@ cc] :
        pr \in {None, Some(<<"no-cache">>)},
        e \in {None, Some(<<"Thu, 01 Jan 1970 10:00:05 GMT">>)},
        lm \in {None, Some(<<"Mon, 01 Dec 1969 00:00:00 GMT">>)},
        cc \in {NoHeaders, [n \in {"cache-control"} |-> << >>]} \cup
               {[n \in {"cache-control"} |-> v] :
                    v \in HeaderValues(DirectiveFragments, MaxDirectives)}}

InitDirectives ==
    /\ now = StartTime
    /\ request = SimpleRequest
    /\ response \in DirectiveResponses
    /\ options \in {NoOptions, [NoOptions EXCEPT !.ignoreCargoCult = Some(TRUE)]}
    /\ policy = NewCachePolicy(request, response, options, now)
    /\ out = Idle

\* the caller builds the policy again from the response it holds: the
\* constructor works on a copy of the headers (cloneDeep)
Construct ==
    /\ out = Idle
    /\ policy' = NewCachePolicy(request, response, options, now)
    /\ UNCHANGED <<now, request, response, options, out>>

NextDirectives == Tick(MatchTicks) \/ Construct \/ CallStorable \/ CallMaxAge

SpecDirectives == InitDirectives /\ [][NextDirectives]_vars

---------------------------------------------------------------------------
(* Request headers retained: stored and revalidation responses with no     *)
(* Vary header, an empty one and one that names a field; policies built,   *)
(* revalidated, and written and read back                                  *)

RetainedVaryValues == {None, Some(<< >>), Some(<<"weather">>)}

RetainedStoredResponses ==
    {[status |-> None,
      headers |-> [n \in {"cache-control", "etag"} |->
                      IF n = "etag" THEN ETagV1 ELSE <<"max-age", EQ, "2">>]
                  @@ HeadersOf([vary |-> v])] :
        v \in RetainedVaryValues}

RetainedRequests ==
    {[SimpleRequest EXCEPT !.headers = SimpleRequest.headers @@ HeadersOf([weather |-> w])] :
        w \in {None, Some(<<"nice">>), Some(<<"bad">>)}}

RetainedResponses ==
    {[status |-> Some(st),
      headers |-> [n \in {"etag"} |-> e] @@ HeadersOf([vary |-> v])] :
        st \in {200, 304}, e \in {ETagV1, ETagV2}, v \in RetainedVaryValues}

InitRetained ==
    /\ now = StartTime
    /\ request \in RetainedRequests
    /\ response \in RetainedStoredResponses
    /\ options = NoOptions
    /\ policy = NewCachePolicy(request, response, options, now)
    /\ out = Idle

\* the caller writes the policy out and keeps the policy it reads back
Thaw ==
    /\ out = Idle
    /\ JsonRoundTrip(ToObject(policy)).v = 1
    /\ policy' = FromObject(JsonRoundTrip(ToObject(policy)))
    /\ out' = [op |-> "fromObject", at |-> now, result |-> policy']
    /\ UNCHANGED <<now, request, response, options>>

NextRetained ==
    \/ Tick(MatchTicks)
    \/ Construct
    \/ CallRevalidatedPolicy(RetainedRequests, RetainedResponses)
    \/ Adopt
    \/ Thaw

SpecRetained == InitRetained /\ [][NextRetained]_vars

---------------------------------------------------------------------------
(* Freshening: stored responses that came with an Age and a Date, and the  *)
(* responses of a revalidation made later                                  *)

FreshenStoredResponses ==
    {[status |-> None,
      headers |-> [n \in {"cache-control", "etag"} |->
                      IF n = "etag" THEN ETagV1 ELSE <<"max-age", EQ, "2">>]
                  @@ HeadersOf([age |-> a, date |-> d])] :
        a \in {None, Some(<<"1">>), Some(<<"3">>)},
        d \in {None, Some(<<"Thu, 01 Jan 1970 09:59:58 GMT">>),
               Some(<<"Thu, 01 Jan 1970 10:00:00 GMT">>)}}

FreshenResponses ==
    {[status |-> Some(st),
      headers |-> [n \in {"etag"} |-> e] @@ HeadersOf([age |-> a, date |-> d])] :
        st \in {200, 304}, e \in {ETagV1, ETagV2},
        a \in {None, Some(<<"1">>)},
        d \in {None, Some(<<"Thu, 01 Jan 1970 10:00:02 GMT">>)}}

InitFreshen ==
    /\ now = StartTime
    /\ request = SimpleRequest
    /\ response \in FreshenStoredResponses
    /\ options \in {NoOptions, [NoOptions EXCEPT !.shared = Some(FALSE)]}
    /\ policy = NewCachePolicy(request, response, options, now)
    /\ out = Idle

NextFreshen ==
    \/ Tick(MaxTicks)
    \/ CallStale
    \/ CallRevalidatedPolicy({SimpleRequest}, FreshenResponses)
    \/ Adopt

SpecFreshen == InitFreshen /\ [][NextFreshen]_vars

---------------------------------------------------------------------------
(* Properties *)

\* the word w occurs in the string s
ContainsWord(s, w) == \E i \in 1..Len(s) : s[i] = w

\* the response the caller gave carries the directive in its Cache-Control
ResponseHas(directive) ==
    /\ "cache-control" \in DOMAIN response.headers
    /\ ContainsWord(response.headers["cache-control"], directive)

RECURSIVE JoinParts(_)
JoinParts(parts) ==
    IF parts = << >> THEN << >>
    ELSE IF Tail(parts) = << >> THEN Head(parts)
    ELSE Head(parts) \o <<COMMA, SP>> \o JoinParts(Tail(parts))

\* the Cache-Control value s with every directive of the given name taken out
WithoutDirective(s, name) ==
    JoinParts(SelectSeq(SplitWs(Trim(s), COMMA, << >>),
                        LAMBDA part : SplitEq2(part)[1] # <<name>>))

\* the caller's response with the directive taken out of its Cache-Control
ResponseWithout(name) ==
    [response EXCEPT !.headers =
        Put(response.headers, "cache-control",
            WithoutDirective(response.headers["cache-control"], name))]

\* the constructor discards no-store: ignoreCargoCult is on and the response
\* carries pre-check and post-check
CargoCultApplies ==
    /\ options.ignoreCargoCult = Some(TRUE)
    /\ ResponseHas("pre-check")
    /\ ResponseHas("post-check")

\* C1, as stated: a policy whose response Cache-Control contains no-store is
\* never storable, whatever the other directives, the status, the method and
\* the constructor's options.
C1_NoStoreWhateverOptions ==
    out.op = "storable" /\ ResponseHas("no-store") => out.result = FALSE

\* C1, amended: a policy whose response Cache-Control contains no-store is not
\* storable, whatever the other directives, the status, the method and the
\* options, unless ignoreCargoCult is on and the response also carries
\* pre-check and post-check.
C1_NoStoreNotStorable ==
    out.op = "storable" /\ ResponseHas("no-store") /\ ~CargoCultApplies
        => out.result = FALSE

\* a GET response with status 200, public and no-store, built with
\* ignoreCargoCult on, is refused
C1_Witness ==
    /\ out.op = "storable"
    /\ ResponseHas("no-store")
    /\ ResponseHas("public")
    /\ options.ignoreCargoCult = Some(TRUE)
    /\ policy.method = "GET"
    /\ policy.status = 200
    /\ out.result = FALSE

\* C2: a response whose Cache-Control contains private is not storable by a
\* shared cache; built with shared=false, the same request and response are
\* storable exactly when they are storable with the private directive taken
\* out, that is when all the other conditions of storable() hold.
C2_PrivateOnlyWhenShared ==
    out.op = "storable" /\ ResponseHas("private") =>
        IF options.shared # Some(FALSE)
        THEN out.result = FALSE
        ELSE out.result =
                Storable(NewCachePolicy(request, ResponseWithout("private"), options,
                                        policy.responseTime))

\* a private response is stored by a private cache
C2_Witness ==
    /\ out.op = "storable"
    /\ ResponseHas("private")
    /\ options.shared = Some(FALSE)
    /\ out.result = TRUE

\* the call in progress is satisfiesWithoutRevalidation(out.req)
Satisfying == out.op = "satisfiesWithoutRevalidation"

\* the directives of the new request
NewRequestCC == ParseCacheControl(Get(out.req.headers, "cache-control"))

\* the stored response carries the directive in its Cache-Control
StoredResponseHas(directive) ==
    /\ "cache-control" \in DOMAIN policy.resHeaders
    /\ ContainsWord(policy.resHeaders["cache-control"], directive)

\* C3: when the policy is stale at the time of the call,
\* satisfiesWithoutRevalidation(req) returns true only if req carries max-stale,
\* without a value or with a number strictly greater than age() - maxAge(),
\* and the stored response's Cache-Control has no must-revalidate.
C3_StaleNeedsMaxStale ==
    Satisfying /\ Stale(policy, out.at) /\ out.result = TRUE =>
        /\ Dir(NewRequestCC, "max-stale")
        /\ \/ NewRequestCC[<<"max-stale">>].flag
           \/ JsGt(JsSeconds(ParseInt(NewRequestCC[<<"max-stale">>].str)),
                   JsSub(Num(Age(policy, out.at)), MaxAge(policy)))
        /\ ~StoredResponseHas("must-revalidate")

\* a response stale for half a second is served to a request with max-stale=1
C3_Witness ==
    /\ Satisfying
    /\ Stale(policy, out.at)
    /\ Age(policy, out.at) - MaxAge(policy)[1] = TickLength
    /\ Dir(NewRequestCC, "max-stale")
    /\ ~NewRequestCC[<<"max-stale">>].flag
    /\ out.result = TRUE

\* the new request carries Cache-Control: no-cache, or a Pragma with no-cache
NewRequestNoCache ==
    \/ /\ "cache-control" \in DOMAIN out.req.headers
       /\ ContainsWord(out.req.headers["cache-control"], "no-cache")
    \/ /\ "pragma" \in DOMAIN out.req.headers
       /\ ContainsWord(out.req.headers["pragma"], "no-cache")

\* C4: satisfiesWithoutRevalidation(req) returns false whenever req carries
\* Cache-Control: no-cache or a Pragma header containing no-cache, whatever the
\* policy's freshness and the request's other headers and directives.
C4_NoCacheFailsClosed ==
    Satisfying /\ NewRequestNoCache => out.result = FALSE

\* the method of a request: GET when it carries none
MethodOf(req) == IF req.method = None THEN "GET" ELSE req.method[1]

\* C5: satisfiesWithoutRevalidation(req) returns true only if the stored URL is
\* unset or equal to req's URL, the stored Host equals req's Host, and req's
\* method (GET when it carries none) equals the stored method; HEAD is not
\* accepted against another stored method.
C5_MatchesUrlHostMethod ==
    Satisfying /\ out.result = TRUE =>
        /\ policy.url = None \/ policy.url = out.req.url
        /\ policy.host = Get(out.req.headers, "host")
        /\ MethodOf(out.req) = policy.method

\* the field names each Vary value of VaryValues lists
FieldNames(vary) ==
    CASE vary = << >> -> {}
      [] vary = <<"weather">> -> {"weather"}
      [] vary = <<SP, "Weather", SP, COMMA, SP, "SUN", SP>> -> {"weather", "sun"}
      [] vary = <<"sun", COMMA, "weather">> -> {"weather", "sun"}

\* satisfiesWithoutRevalidation(out.req) but for the Vary check: the result
\* for the same policy holding no request headers to compare
PassesAllButVary ==
    SatisfiesWithoutRevalidation([policy EXCEPT !.reqHeaders = None], out.req, out.at)

\* C6: when the stored response's Vary is not "*", a new request passes the
\* Vary check iff for every field name Vary lists (in any case, with any white
\* space around it, in any order) its value for that header is identical to the
\* stored request's, a header present on one side only being a mismatch;
\* headers Vary does not name do not matter.
C6_VaryComparesListedFields ==
    Satisfying /\ "vary" \in DOMAIN policy.resHeaders /\ policy.resHeaders["vary"] # <<"*">> =>
        (out.result <=>
            /\ PassesAllButVary
            /\ \A n \in FieldNames(policy.resHeaders["vary"]) :
                   Get(out.req.headers, n) = Get(request.headers, n))

\* a request with the stored weather and sun passes " Weather , SUN "
C6_Witness ==
    /\ Satisfying
    /\ Get(policy.resHeaders, "vary") = Some(<<SP, "Weather", SP, COMMA, SP, "SUN", SP>>)
    /\ "weather" \in DOMAIN out.req.headers
    /\ "sun" \in DOMAIN out.req.headers
    /\ out.result = TRUE

\* C7: a policy whose stored response has Vary: * has maxAge() = 0, and
\* satisfiesWithoutRevalidation(req) is false for every req at every time,
\* also for a req that carries max-stale.
C7_VaryStarNeverSatisfies ==
    Get(policy.resHeaders, "vary") = Some(<<"*">>) =>
        /\ out.op = "maxAge" => out.result = Num(0)
        /\ Satisfying => out.result = FALSE

\* a request equal to the stored one, with max-stale, is refused after a tick
C7_Witness ==
    /\ Satisfying
    /\ Get(policy.resHeaders, "vary") = Some(<<"*">>)
    /\ out.at > StartTime
    /\ Dir(NewRequestCC, "max-stale")
    /\ PassesAllButVary
    /\ out.result = FALSE

\* C8: for a constructed policy p and any instant, the policy
\* q = fromObject(JSON.parse(JSON.stringify(p.toObject()))) answers stale(),
\* maxAge(), storable() and satisfiesWithoutRevalidation(req), for every req,
\* as p does.
C8_RoundTripAgrees ==
    out.op = "fromObject" =>
        /\ Stale(out.result, out.at) = Stale(policy, out.at)
        /\ MaxAge(out.result) = MaxAge(policy)
        /\ Storable(out.result) = Storable(policy)
        /\ \A req \in RoundTripRequests :
               SatisfiesWithoutRevalidation(out.result, req, out.at)
                   = SatisfiesWithoutRevalidation(policy, req, out.at)

\* the call in progress is revalidatedPolicy(out.req, out.res)
Revalidating == out.op = "revalidatedPolicy"

\* the status of a response: 200 when it carries none
StatusOf(res) == IF res.status = None THEN 200 ELSE res.status[1]

Carries(headers, name) == name \in DOMAIN headers /\ headers[name] # << >>

\* an entity tag without its W/ prefix
WithoutWeakPrefix(etag) == IF etag # << >> /\ Head(etag) = WEAK THEN Tail(etag) ELSE etag

\* C10: for a 304 revalidation response, matches is decided in this order: a
\* strong new ETag matches iff the stored ETag without its W/ prefix equals it
\* (Last-Modified is not consulted); otherwise, when both carry an ETag, iff
\* they are equal without their W/ prefixes; otherwise, when the stored
\* response carries Last-Modified, iff the new Last-Modified is identical;
\* otherwise iff neither response carries an ETag or a Last-Modified.
C10_MatchOrder ==
    Revalidating /\ out.res.status = Some(304) =>
        LET old == policy.resHeaders
            new == out.res.headers
        IN  out.result.matches <=>
                IF Carries(new, "etag") /\ Head(new["etag"]) # WEAK
                THEN Carries(old, "etag") /\ WithoutWeakPrefix(old["etag"]) = new["etag"]
                ELSE IF Carries(old, "etag") /\ Carries(new, "etag")
                THEN WithoutWeakPrefix(old["etag"]) = WithoutWeakPrefix(new["etag"])
                ELSE IF Carries(old, "last-modified")
                THEN "last-modified" \in DOMAIN new
                     /\ new["last-modified"] = old["last-modified"]
                ELSE /\ ~Carries(old, "etag")
                     /\ ~Carries(new, "etag")
                     /\ ~Carries(new, "last-modified")

\* a 304 with the strong form of the stored weak ETag matches although its
\* Last-Modified differs from the stored one
C10_Witness ==
    /\ Revalidating
    /\ out.res.status = Some(304)
    /\ Get(policy.resHeaders, "etag") = Some(Weak(ETagV1))
    /\ Get(out.res.headers, "etag") = Some(ETagV1)
    /\ Get(policy.resHeaders, "last-modified") = Some(LastModified1)
    /\ Get(out.res.headers, "last-modified") = Some(LastModified2)
    /\ out.result.matches = TRUE

\* the caller's request carries an Authorization header
RequestAuthorized == "authorization" \in DOMAIN request.headers

\* the caller's request with its Authorization header taken out, or put in
\* when it has none
RequestAuthorizationToggled ==
    [request EXCEPT !.headers =
        IF RequestAuthorized
        THEN Delete(request.headers, "authorization")
        ELSE Put(request.headers, "authorization", <<"Basic", SP, "abc">>)]

\* C17: under a shared cache, a response to a request that carried
\* Authorization is storable only if the response's Cache-Control contains
\* must-revalidate, public or s-maxage; under shared=false storable() is the
\* same with and without the Authorization header.
C17_AuthorizationOnlyWhenShared ==
    out.op = "storable" =>
        IF options.shared # Some(FALSE)
        THEN RequestAuthorized /\ out.result = TRUE =>
                 \/ ResponseHas("must-revalidate")
                 \/ ResponseHas("public")
                 \/ ResponseHas("s-maxage")
        ELSE out.result =
                 Storable(NewCachePolicy(RequestAuthorizationToggled, response, options,
                                         policy.responseTime))

\* a shared cache stores the response to an authorized GET that carries
\* s-maxage and nothing else that allows it
C17_Witness ==
    /\ out.op = "storable"
    /\ options.shared # Some(FALSE)
    /\ RequestAuthorized
    /\ ResponseHas("s-maxage")
    /\ ~ResponseHas("public")
    /\ ~ResponseHas("must-revalidate")
    /\ out.result = TRUE

\* C18: storable() is false for every request method other than GET, HEAD and
\* POST, and for POST it is true only if the response carries max-age, Expires,
\* or s-maxage under a shared cache; a POST response whose only signal is
\* public is not storable.
C18_PostNeedsExplicitExpiration ==
    out.op = "storable" /\ out.result = TRUE =>
        /\ MethodOf(request) \in {"GET", "HEAD", "POST"}
        /\ MethodOf(request) = "POST" =>
               \/ ResponseHas("max-age")
               \/ "expires" \in DOMAIN response.headers
               \/ options.shared # Some(FALSE) /\ ResponseHas("s-maxage")

\* a POST response with status 200 whose Cache-Control is public alone is
\* refused
C18_Witness ==
    /\ out.op = "storable"
    /\ request.method = Some("POST")
    /\ Get(response.headers, "cache-control") = Some(<<"public">>)
    /\ "expires" \notin DOMAIN response.headers
    /\ StatusOf(response) = 200
    /\ out.result = FALSE

\* the statuses C19 lists
ListedStatuses == {200, 203, 204, 300, 301, 302, 303, 307, 308, 404, 405, 410, 414, 501}

\* C19: storable() is true only if the response status is one of the listed
\* statuses; for a GET response under shared=false that carries a future
\* Expires header (and no Cache-Control), storable() is true for exactly those
\* statuses and false for every other one, 206 and 304 included.
C19_UnderstoodStatusesOnly ==
    out.op = "storable" =>
        /\ out.result = TRUE => StatusOf(response) \in ListedStatuses
        /\ /\ options.shared = Some(FALSE)
           /\ MethodOf(request) = "GET"
           /\ DOMAIN response.headers = {"expires"}
           => (out.result <=> StatusOf(response) \in ListedStatuses)

\* a 206 with a future Expires is refused by a private cache
C19_Witness ==
    /\ out.op = "storable"
    /\ options.shared = Some(FALSE)
    /\ MethodOf(request) = "GET"
    /\ DOMAIN response.headers = {"expires"}
    /\ response.status = Some(206)
    /\ out.result = FALSE

\* the policy passes the method, status, no-store, private and Authorization
\* conditions of storable()
PassesFirstConditions ==
    /\ ~Dir(policy.reqcc, "no-store")
    /\ \/ policy.method \in {"GET", "HEAD"}
       \/ policy.method = "POST" /\ HasExplicitExpiration(policy)
    /\ policy.status \in ListedStatuses
    /\ ~Dir(policy.rescc, "no-store")
    /\ policy.isShared => ~Dir(policy.rescc, "private")
    /\ policy.isShared /\ ~policy.noAuthorization => AllowsStoringAuthenticated(policy)

\* the statuses C20 lists as cacheable by default
ListedDefaultCacheable == {200, 203, 204, 206, 300, 301, 308, 404, 405, 410, 414, 501}

\* C20: a response that passes the method, status, no-store, private and
\* Authorization conditions is storable iff it has a cacheability signal: an
\* Expires header, max-age, s-maxage under a shared cache (not under
\* shared=false), public, or a status cacheable by default, 308 among them.
C20_StorableIffSignal ==
    out.op = "storable" /\ PassesFirstConditions =>
        (out.result <=>
            \/ Truthy(policy.resHeaders, "expires")
            \/ Dir(policy.rescc, "max-age")
            \/ policy.isShared /\ Dir(policy.rescc, "s-maxage")
            \/ Dir(policy.rescc, "public")
            \/ policy.status \in ListedDefaultCacheable)

\* the validators a response may carry
Validators == {"etag", "last-modified"}

\* the revalidation response carries exactly the stored response's validators
SameValidators ==
    \A v \in Validators : Get(out.res.headers, v) = Get(policy.resHeaders, v)

\* the Connection header of the headers names the header
ConnectionLists(headers, name) ==
    "connection" \in DOMAIN headers /\ ContainsWord(headers["connection"], name)

\* responseHeaders() of the policy revalidatedPolicy returned
ReturnedResponseHeaders == ResponseHeaders(out.result.policy, out.at)

NotUpdated == {"content-length", "content-encoding", "transfer-encoding", "content-range"}

\* C12: when revalidatedPolicy matches, the returned policy keeps the stored
\* status, and its response headers have exactly the stored header names: each
\* takes the new response's value when the new response carries the header and
\* it is none of content-length, content-encoding, transfer-encoding and
\* content-range, and keeps the stored value otherwise; headers only the new
\* response carries are not added.
C12_MergeKeepsStoredNames ==
    Revalidating /\ out.result.matches = TRUE =>
        LET merged == out.result.policy.resHeaders
        IN  /\ out.result.policy.status = policy.status
            /\ DOMAIN merged = DOMAIN policy.resHeaders
            /\ \A k \in DOMAIN merged :
                   merged[k] = IF k \in DOMAIN out.res.headers /\ k \notin NotUpdated
                               THEN out.res.headers[k]
                               ELSE policy.resHeaders[k]

\* a matching 304 brings another Content-Length, another Content-Type and a
\* header of its own: the first and the last are not taken, the second is
C12_Witness ==
    /\ Revalidating
    /\ out.result.matches = TRUE
    /\ Get(policy.resHeaders, "content-length") = Some(<<"5">>)
    /\ Get(out.res.headers, "content-length") = Some(<<"9">>)
    /\ Get(out.res.headers, "content-type") = Some(<<"text/html">>)
    /\ "x-new" \in DOMAIN out.res.headers
    /\ Get(out.result.policy.resHeaders, "content-length") = Some(<<"5">>)
    /\ Get(out.result.policy.resHeaders, "content-type") = Some(<<"text/html">>)
    /\ "x-new" \notin DOMAIN out.result.policy.resHeaders

AskingValidators == out.op = "revalidationHeaders"

\* the incoming request does not match the stored one: another URL, Host or
\* Vary-selected header, or a method (GET when it carries none) that is neither
\* the stored method nor HEAD
IncomingMismatch ==
    \/ out.req.url # request.url
    \/ Get(out.req.headers, "host") # Get(request.headers, "host")
    \/ /\ Get(policy.resHeaders, "vary") = Some(<<"weather">>)
       /\ Get(out.req.headers, "weather") # Get(request.headers, "weather")
    \/ MethodOf(out.req) \notin {policy.method, "HEAD"}

\* C14: when the incoming request does not match the stored one or the policy
\* is not storable, the headers revalidationHeaders returns hold neither
\* if-none-match nor if-modified-since, even when the request carried them.
C14_NoValidatorsOnMismatch ==
    AskingValidators /\ (IncomingMismatch \/ ~Storable(policy)) =>
        /\ "if-none-match" \notin DOMAIN out.result
        /\ "if-modified-since" \notin DOMAIN out.result

\* the entity tags of a header value, each without the white space around it
TagsOf(value) ==
    LET pieces == SplitOn(value, COMMA, << >>)
    IN  [i \in 1..Len(pieces) |-> Trim(pieces[i])]

\* the entity tag is strong: it does not start with W/
IsStrongTag(tag) == tag = << >> \/ Head(tag) # WEAK

\* the entity tags of the headers' if-none-match, none when it is absent
TagsIn(headers) ==
    IF "if-none-match" \in DOMAIN headers THEN TagsOf(headers["if-none-match"]) ELSE << >>

\* the stored ETag, as a list of at most one entity tag
StoredTag ==
    IF Carries(policy.resHeaders, "etag") THEN <<Trim(policy.resHeaders["etag"])>> ELSE << >>

\* what C15 promises of the returned headers, the strong entity tags to keep
\* being those of the given ones
OnlyStrongValidators(tags) ==
    /\ "if-modified-since" \notin DOMAIN out.result
    /\ TagsIn(out.result) = SelectSeq(tags, IsStrongTag)
    /\ "if-none-match" \in DOMAIN out.result => TagsIn(out.result) # << >>

CarriesEndToEnd(name) ==
    Carries(out.req.headers, name) /\ ~ConnectionLists(out.req.headers, name)

C16_StoredValidatorsSent ==
    /\ AskingValidators
    /\ Storable(policy)
    /\ ~IncomingMismatch
    /\ policy.method = "GET"
    /\ MethodOf(out.req) = "GET"
    /\ \A h \in {"accept-ranges", "if-match", "if-unmodified-since"} :
           h \notin DOMAIN out.req.headers
    => /\ Carries(policy.resHeaders, "etag") =>
              Get(out.result, "if-none-match") =
                  Some(IF CarriesEndToEnd("if-none-match")
                       THEN out.req.headers["if-none-match"] \o <<COMMA, SP>>
                                \o policy.resHeaders["etag"]
                       ELSE policy.resHeaders["etag"])
       /\ Carries(policy.resHeaders, "last-modified")
              /\ "if-modified-since" \notin DOMAIN out.req.headers =>
              Get(out.result, "if-modified-since") = Some(policy.resHeaders["last-modified"])

\* a GET with an entity tag of its own and no If-Modified-Since gets the stored
\* ETag after its own and the stored Last-Modified
C16_Witness ==
    /\ AskingValidators
    /\ Storable(policy)
    /\ ~IncomingMismatch
    /\ out.req.method = Some("GET")
    /\ Get(out.req.headers, "if-none-match") = Some(ETagV2)
    /\ "if-modified-since" \notin DOMAIN out.req.headers
    /\ "connection" \notin DOMAIN out.req.headers
    /\ Get(out.result, "if-none-match") = Some(ETagV2 \o <<COMMA, SP>> \o ETagV1)
    /\ Get(out.result, "if-modified-since") = Some(LastModified1)

\* the cache is shared: the caller did not pass shared: false
Shared == options.shared # Some(FALSE)

\* one of the conditions under which maxAge() is zero whatever lifetime the
\* response declares
ZeroLifetime ==
    \/ ~Storable(policy)
    \/ ResponseHas("no-cache")
    \/ /\ Shared
       /\ "set-cookie" \in DOMAIN response.headers
       /\ ~ResponseHas("public")
       /\ ~ResponseHas("immutable")
    \/ Get(response.headers, "vary") = Some(<<"*">>)
    \/ Shared /\ ResponseHas("proxy-revalidate")

\* the number of seconds the response's Cache-Control gives the directive
DeclaredSeconds(name) ==
    LET s == response.headers["cache-control"]
        i == CHOOSE k \in 1..Len(s) : s[k] = name
    IN  IntTable[s[i + 2]]

\* the lifetime the response has without s-maxage and max-age: from Expires,
\* else a tenth of the time since Last-Modified, and at least the policy's
\* minimum for an immutable response
DerivedLifetime ==
    LET minTtl  == IF ResponseHas("immutable") THEN Seconds(policy.immutableMinTtl) ELSE 0
        written == policy.responseTime
    IN  IF "expires" \in DOMAIN response.headers
        THEN LET expires == DateTable[response.headers["expires"][1]]
             IN  IF expires < written THEN 0 ELSE Max(minTtl, expires - written)
        ELSE IF "last-modified" \in DOMAIN response.headers
        THEN Max(minTtl, (written - DateTable[response.headers["last-modified"][1]]) \div 10)
        ELSE minTtl

\* C21: when no zero-lifetime condition applies, maxAge() is s-maxage for a
\* shared cache that has one, otherwise max-age if present, and only otherwise
\* the lifetime derived from Expires or Last-Modified; under shared=false
\* maxAge() is what it would be without the s-maxage directive.
C21_LifetimePrecedence ==
    out.op = "maxAge" /\ ~ZeroLifetime =>
        /\ out.result =
              IF Shared /\ ResponseHas("s-maxage")
              THEN Num(Seconds(DeclaredSeconds("s-maxage")))
              ELSE IF ResponseHas("max-age")
              THEN Num(Seconds(DeclaredSeconds("max-age")))
              ELSE Num(DerivedLifetime)
        /\ ~Shared /\ ResponseHas("s-maxage") =>
              out.result = MaxAge(NewCachePolicy(request, ResponseWithout("s-maxage"),
                                                 options, policy.responseTime))

\* one of the conditions C22 lists
ListedZeroLifetime ==
    \/ ~Storable(policy)
    \/ ResponseHas("no-cache")
    \/ /\ Shared
       /\ "set-cookie" \in DOMAIN response.headers
       /\ ~ResponseHas("public")
       /\ ~ResponseHas("immutable")
    \/ Shared /\ ResponseHas("proxy-revalidate")

Milliseconds(n) == n * (1000 \div UnitsPerSecond)

\* the seconds of a grace directive of the response's Cache-Control, in time
\* units; none when the directive is absent
GracePeriods ==
    {Seconds(DeclaredSeconds(name)) :
        name \in {n \in {"stale-if-error", "stale-while-revalidate"} : ResponseHas(n)}}

\* C24: timeToLive() includes the grace periods: with lifetime M, age a and
\* stale-if-error=E or stale-while-revalidate=W it is
\* max(0, M-a, M-a+E, M-a+W) * 1000 milliseconds, so 260000 for a fresh
\* max-age=60 response with a grace period of 200 at age 0.
C24_TimeToLiveWithGrace ==
    out.op = "timeToLive" /\ MaxAge(policy) # NaN =>
        LET remaining == MaxAge(policy)[1] - Age(policy, out.at)
            candidates == {0, remaining} \cup {remaining + g : g \in GracePeriods}
        IN  /\ out.result # NaN
            /\ out.result[1] = CHOOSE m \in candidates : \A c \in candidates : m >= c
            /\ GracePeriods = {Seconds(200)} /\ remaining = Seconds(60) =>
                  Milliseconds(out.result[1]) = 260000

\* HTTP statuses of a server error, as C25 lists them
ServerErrorStatuses == {500, 502, 503, 504}

\* the stored response carries stale-if-error and at the time of the call its
\* age is inside the lifetime extended by that many seconds
InsideStaleIfErrorWindow ==
    /\ StoredResponseHas("stale-if-error")
    /\ MaxAge(policy) # NaN
    /\ DirInt(policy.rescc, "stale-if-error") # NaN
    /\ Age(policy, out.at) <
          MaxAge(policy)[1] + Seconds(DirInt(policy.rescc, "stale-if-error")[1])

\* C25: inside the stale-if-error window of the stored response,
\* revalidatedPolicy called with a complete request and no response, or a
\* response of status 500, 502, 503 or 504, raises no error and returns the
\* receiver as policy with modified=false and matches=false.
C25_StaleIfErrorKeepsPolicy ==
    /\ out.op = "revalidatedPolicy"
    /\ "outcome" \in DOMAIN out
    /\ ~LacksHeaders(out.req)
    /\ InsideStaleIfErrorWindow
    /\ \/ out.res = None
       \/ ~LacksHeaders(out.res) /\ out.res[1].status \in {Some(st) : st \in ServerErrorStatuses}
    => /\ ~out.outcome.threw
       /\ out.outcome.value = [matches |-> FALSE, modified |-> FALSE, policy |-> policy]

\* the argument-checking calls
ArgumentCalls == {"new", "satisfiesWithoutRevalidation", "revalidatedPolicy", "fromObject"}

\* the last call was given a request or response that is missing or has no
\* headers, or fromObject an object that is missing or whose v is not 1
BadArgument ==
    \/ out.op \in {"new", "satisfiesWithoutRevalidation", "revalidatedPolicy"}
          /\ (out.req = None \/ "headers" \notin DOMAIN out.req[1])
    \/ out.op \in {"new", "revalidatedPolicy"}
          /\ (out.res = None \/ "headers" \notin DOMAIN out.res[1])
    \/ out.op = "fromObject"
          /\ (out.obj = None \/ "v" \notin DOMAIN out.obj[1] \/ out.obj[1].v # 1)

\* a call with a bad argument raised an error and produced nothing
RaisedOnBadArgument ==
    out.op \in ArgumentCalls /\ BadArgument =>
        out.outcome.threw /\ "value" \notin DOMAIN out.outcome

\* a call that raises an error leaves the receiver as it was
RaisingKeepsReceiver ==
    out'.op \in ArgumentCalls /\ out'.outcome.threw => policy' = policy

NewRequestHas(directive) ==
    /\ "cache-control" \in DOMAIN out.req.headers
    /\ ContainsWord(out.req.headers["cache-control"], directive)

\* the number of seconds the new request's Cache-Control gives the directive,
\* in time units
NewRequestSeconds(name) ==
    LET s == out.req.headers["cache-control"]
        i == CHOOSE k \in 1..Len(s) : s[k] = name
    IN  Seconds(IntTable[s[i + 2]])

\* C26: satisfiesWithoutRevalidation(req) is false whenever the request's
\* max-age is smaller than the policy's age(), and whenever the request's
\* min-fresh exceeds timeToLive()/1000, even for a response that is fresh.
C26_RequestMaxAgeAndMinFresh ==
    out.op = "satisfiesWithoutRevalidation" =>
        /\ (NewRequestHas("max-age") /\ NewRequestSeconds("max-age") < Age(policy, out.at))
              => out.result = FALSE
        /\ (NewRequestHas("min-fresh")
               /\ JsGt(Num(NewRequestSeconds("min-fresh")), TimeToLive(policy, out.at)))
              => out.result = FALSE

\* a fresh, storable response is refused to a request whose only directive is
\* min-fresh, because less than that remains of its lifetime
C26_Witness ==
    /\ out.op = "satisfiesWithoutRevalidation"
    /\ Storable(policy)
    /\ ~Stale(policy, out.at)
    /\ DOMAIN out.req.headers = {"host", "cache-control"}
    /\ out.req.headers["cache-control"] = <<"min-fresh", EQ, "1">>
    /\ JsGt(Num(Seconds(1)), TimeToLive(policy, out.at))
    /\ out.result = FALSE

\* the response of the max-stale scenario with the given Age, with or without
\* must-revalidate, stored by a private cache
ScenarioStored(age) ==
    /\ ~Shared
    /\ response.headers["age"] = <<age>>

\* the new request is the stored one with Cache-Control: max-stale=180
AsksMaxStale180 ==
    /\ out.op = "satisfiesWithoutRevalidation"
    /\ NewRequestHas("max-stale")
    /\ out.req.headers["cache-control"] = <<"max-stale", EQ, "180">>

\* C27, as stated: a private cache's policy for max-age=120 with Age: 360 is
\* stale and, asked when the response is stored, satisfies a matching request
\* with max-stale=180, unless the response also carries must-revalidate.
C27_MaxStaleScenarioAge360 ==
    ScenarioStored("360") =>
        /\ out.op = "stale" => out.result = TRUE
        /\ AsksMaxStale180 /\ out.at = policy.responseTime =>
              out.result = ~ResponseHas("must-revalidate")

\* C27, amended: a private cache's policy for max-age=120 with Age: 240 is
\* stale and, while its age is below 300 seconds, satisfies a matching request
\* with max-stale=180, unless the response also carries must-revalidate.
C27_MaxStaleScenarioAge240 ==
    ScenarioStored("240") =>
        /\ out.op = "stale" => out.result = TRUE
        /\ AsksMaxStale180 /\ Age(policy, out.at) < Seconds(300) =>
              out.result = ~ResponseHas("must-revalidate")

\* half a minute after it was stored, the response with Age: 240 and without
\* must-revalidate is served to the request with max-stale=180
C27_Witness ==
    /\ ScenarioStored("240")
    /\ AsksMaxStale180
    /\ ~ResponseHas("must-revalidate")
    /\ out.at = policy.responseTime + Seconds(30)
    /\ Stale(policy, out.at)
    /\ out.result = TRUE

\* the hop-by-hop headers C28 lists
ListedHopByHop ==
    {"connection", "keep-alive", "proxy-authenticate", "proxy-authorization",
     "te", "trailer", "transfer-encoding", "upgrade"}

\* the stored Connection header names the header: one of its tokens is the
\* name, in any case
NamedInConnection(name) ==
    /\ "connection" \in DOMAIN policy.resHeaders
    /\ LET tokens == SplitWs(Trim(policy.resHeaders["connection"]), COMMA, << >>)
       IN  \E i \in 1..Len(tokens) : ToLowerCase(tokens[i]) = <<name>>

\* C28: the headers responseHeaders() returns contain none of connection,
\* keep-alive, proxy-authenticate, proxy-authorization, te, trailer,
\* transfer-encoding and upgrade, nor a header named in the stored Connection
\* header; every other stored header except Warning is passed through
\* unchanged; age is the current age() rounded and date is the current time.
C28_HopByHopRemoved ==
    out.op = "responseHeaders" =>
        LET h == out.result
            stored == policy.resHeaders
        IN  /\ DOMAIN h \cap ListedHopByHop = {}
            /\ \A n \in DOMAIN stored \ {"age", "date"} :
                  NamedInConnection(n) => n \notin DOMAIN h
            /\ \A n \in DOMAIN stored \ (ListedHopByHop \cup {"warning", "age", "date"}) :
                  ~NamedInConnection(n) => n \in DOMAIN h /\ h[n] = stored[n]
            /\ h["age"] = <<ToString(RoundSeconds(Age(policy, out.at)))>>
            /\ h["date"] = <<ToUTCString(out.at)>>

\* the ages in seconds a policy can have reported up to now
ReportableAges ==
    RoundSeconds(Age(policy, policy.responseTime))..RoundSeconds(Age(policy, now))

\* the Age of the later headers is a number not below the Age of the earlier
AgeNotDecreased(earlier, later) ==
    \E a, b \in ReportableAges :
        /\ earlier["age"] = <<ToString(a)>>
        /\ later["age"] = <<ToString(b)>>
        /\ a <= b

\* the Age of the later headers is a number above the Age of the earlier
AgeIncreased(earlier, later) ==
    \E a, b \in ReportableAges :
        /\ earlier["age"] = <<ToString(a)>>
        /\ later["age"] = <<ToString(b)>>
        /\ a < b

\* the headers without the names given
Except(headers, names) == [n \in DOMAIN headers \ names |-> headers[n]]

\* C29, as stated: two calls of responseHeaders() at the same instant return
\* identical headers; across calls at later instants Age never decreases and
\* every header other than Age and Date stays identical.
C29_OnlyAgeAndDateChange ==
    out.op = "responseHeaders" /\ "earlier" \in DOMAIN out =>
        /\ out.at = out.earlier.at => out.result = out.earlier.result
        /\ AgeNotDecreased(out.earlier.result, out.result)
        /\ Except(out.result, {"age", "date"}) = Except(out.earlier.result, {"age", "date"})

\* C29, amended: two calls of responseHeaders() at the same instant return
\* identical headers; across calls at later instants Age never decreases and
\* every header other than Age, Date and Warning stays identical.
C29_OnlyAgeDateWarningChange ==
    out.op = "responseHeaders" /\ "earlier" \in DOMAIN out =>
        /\ out.at = out.earlier.at => out.result = out.earlier.result
        /\ AgeNotDecreased(out.earlier.result, out.result)
        /\ Except(out.result, {"age", "date", "warning"})
              = Except(out.earlier.result, {"age", "date", "warning"})

\* responseHeaders() was asked a second time a second or more after the
\* first, and reports a greater age beside a header it passes through
C29_Witness ==
    /\ out.op = "responseHeaders"
    /\ "earlier" \in DOMAIN out
    /\ out.at >= out.earlier.at + Seconds(1)
    /\ AgeIncreased(out.earlier.result, out.result)
    /\ "custom" \in DOMAIN out.result

\* the directive that decides the lifetime of the response is no number:
\* s-maxage for a shared cache, else max-age
LifetimeMalformed ==
    LET cc == response.headers["cache-control"]
        i  == CHOOSE k \in 1..Len(cc) :
                  cc[k] = IF Shared /\ ResponseHas("s-maxage") THEN "s-maxage" ELSE "max-age"
    IN  /\ ResponseHas("max-age") \/ (Shared /\ ResponseHas("s-maxage"))
        /\ cc[i + 2] \notin DOMAIN IntTable

\* C31: a non-numeric Age header contributes an age of 0, and a non-numeric
\* max-age or s-maxage gives maxAge() = 0, so that the response is stale.
C31_MalformedNumbersCountAsZero ==
    /\ out.op = "age" /\ Get(response.headers, "age") = Some(<<"golden">>)
          => out.result = out.at - policy.responseTime
    /\ out.op = "maxAge" /\ LifetimeMalformed => out.result = Num(0)
    /\ out.op = "stale" /\ LifetimeMalformed => out.result = TRUE

\* the directives ignoreCargoCult sets aside
CargoCultDirectives == <<"pre-check", "post-check", "no-cache", "no-store", "must-revalidate">>

\* the Cache-Control value s without the directives named in names
RECURSIVE WithoutDirectives(_, _)
WithoutDirectives(s, names) ==
    IF names = << >> THEN s
    ELSE WithoutDirectives(WithoutDirective(s, Head(names)), Tail(names))

\* the caller's response as it would be had the server not sent the
\* cargo-cult directives, Expires and Pragma
SoberResponse ==
    [response EXCEPT !.headers =
        [n \in DOMAIN response.headers \ {"expires", "pragma"} |->
            IF n = "cache-control"
            THEN WithoutDirectives(response.headers[n], CargoCultDirectives)
            ELSE response.headers[n]]]

\* the policy the constructor builds from the sober response without the option
SoberPolicy == NewCachePolicy(request, SoberResponse, NoOptions, policy.responseTime)

\* what C32 says of a policy
CargoCultEvaluation ==
    /\ CargoCultApplies =>
          /\ policy.rescc = SoberPolicy.rescc
          /\ Except(policy.resHeaders, {"cache-control"})
                = Except(SoberPolicy.resHeaders, {"cache-control"})
          /\ out.op = "storable" => out.result = Storable(SoberPolicy)
          /\ out.op = "maxAge" => out.result = MaxAge(SoberPolicy)
    /\ options.ignoreCargoCult = None =>
          /\ policy.resHeaders = response.headers
          /\ \A i \in 1..Len(CargoCultDirectives) :
                ResponseHas(CargoCultDirectives[i]) => HasDir(policy.rescc, CargoCultDirectives[i])
          /\ out.op = "storable" /\ ResponseHas("no-store") => out.result = FALSE
          /\ out.op = "maxAge" /\ ResponseHas("no-cache") => out.result = Num(0)

\* C32: with ignoreCargoCult and both pre-check and post-check in the
\* response, the policy evaluates the response as if pre-check, post-check,
\* no-cache, no-store and must-revalidate were absent and Expires and Pragma
\* not sent, keeps every other directive, and the constructor leaves the
\* caller's headers as they were; without the option every directive is
\* honoured.
C32_CargoCultSetAside == [](CargoCultEvaluation) /\ [][response' = response]_vars

\* under ignoreCargoCult a response with pre-check, post-check, no-store and
\* a max-age, sent with Expires and Pragma, is built again at a later time and
\* reports the lifetime of its max-age
C32_Witness ==
    /\ CargoCultApplies
    /\ ResponseHas("no-store")
    /\ ResponseHas("max-age")
    /\ {"expires", "pragma"} \subseteq DOMAIN response.headers
    /\ policy.responseTime > StartTime
    /\ out.op = "maxAge"
    /\ out.result = Num(Seconds(2))


\* what C33 says of maxAge(): Pragma: no-cache counts exactly when the
\* response has no Cache-Control header
PragmaCounts ==
    /\ "pragma" \in DOMAIN response.headers
    /\ \E i \in 1..Len(response.headers["pragma"]) : response.headers["pragma"][i] = "no-cache"
    /\ "cache-control" \notin DOMAIN response.headers

\* the response without its Pragma header
PragmaLessResponse ==
    [response EXCEPT !.headers = [n \in DOMAIN response.headers \ {"pragma"} |-> response.headers[n]]]

\* C33: Pragma: no-cache makes the response no-cache (maxAge() = 0) only
\* when the response has no Cache-Control header at all; with a Cache-Control
\* header, even one with an empty value, Pragma is ignored.
C33_PragmaOnlyWithoutCacheControl ==
    options.ignoreCargoCult = None =>
        /\ PragmaCounts => HasDir(policy.rescc, "no-cache")
        /\ PragmaCounts /\ out.op = "maxAge" => out.result = Num(0)
        /\ ~PragmaCounts =>
              /\ policy.rescc = NewCachePolicy(request, PragmaLessResponse,
                                               options, policy.responseTime).rescc
              /\ out.op = "maxAge" =>
                    out.result = MaxAge(NewCachePolicy(request, PragmaLessResponse,
                                                       options, policy.responseTime))

\* a response with an empty Cache-Control and Pragma: no-cache has a
\* lifetime; the same response without the Cache-Control header has none
C33_Witness ==
    /\ options.ignoreCargoCult = None
    /\ "pragma" \in DOMAIN response.headers
    /\ "cache-control" \in DOMAIN response.headers
    /\ response.headers["cache-control"] = << >>
    /\ out.op = "maxAge"
    /\ JsGt(out.result, Num(0))
    /\ MaxAge(NewCachePolicy(request,
                [response EXCEPT !.headers =
                    [n \in DOMAIN response.headers \ {"cache-control"} |-> response.headers[n]]],
                options, policy.responseTime)) = Num(0)


\* the directives of the caller's Cache-Control, as written, in order
WrittenDirectives ==
    IF "cache-control" \in DOMAIN response.headers
    THEN SplitWs(Trim(response.headers["cache-control"]), COMMA, << >>)
    ELSE << >>

\* the written directives that no later one repeats
LastOccurrences ==
    LET parts == WrittenDirectives
        Kept(i) == \A j \in (i + 1)..Len(parts) :
                       SplitEq2(parts[j])[1] # SplitEq2(parts[i])[1]
        RECURSIVE From(_)
        From(i) == IF i > Len(parts) THEN << >>
                   ELSE IF Kept(i) THEN <<parts[i]>> \o From(i + 1)
                   ELSE From(i + 1)
    IN  From(1)

\* a directive is written twice
Repeated ==
    \E i, j \in 1..Len(WrittenDirectives) :
        i < j /\ SplitEq2(WrittenDirectives[i])[1] = SplitEq2(WrittenDirectives[j])[1]

\* the policy of the response that keeps only the last occurrences
LastOccurrencePolicy ==
    NewCachePolicy(request,
        [response EXCEPT !.headers =
            [n \in DOMAIN response.headers |->
                IF n = "cache-control" THEN JoinParts(LastOccurrences)
                ELSE response.headers[n]]],
        options, policy.responseTime)

PoliciesInHand ==
    {policy} \cup (IF out.op = "revalidatedPolicy" THEN {out.result.policy} ELSE {})
             \cup (IF out.op = "fromObject" THEN {out.result} ELSE {})

\* the stored policy retains the headers of the request it was built for,
\* and a revalidated policy those of the revalidation request
RetainedAreTheRequests ==
    /\ policy.reqHeaders # None => policy.reqHeaders = Some(request.headers)
    /\ (out.op = "revalidatedPolicy" /\ out.result.policy.reqHeaders # None) =>
          out.result.policy.reqHeaders = Some(out.req.headers)

\* C34 as stated: every policy reached by construction, by revalidatedPolicy
\* or by a round trip retains the request headers if and only if its stored
\* response carries a Vary header.
C34_RetainedIffVary ==
    /\ RetainedAreTheRequests
    /\ \A p \in PoliciesInHand : p.reqHeaders # None <=> "vary" \in DOMAIN p.resHeaders

\* C34: every policy reached by construction, by revalidatedPolicy or by a
\* round trip retains the request headers if and only if its stored response
\* carries a Vary header whose value is not empty.
C34_RetainedIffVaryNotEmpty ==
    /\ RetainedAreTheRequests
    /\ \A p \in PoliciesInHand :
          p.reqHeaders # None <=> ("vary" \in DOMAIN p.resHeaders /\ p.resHeaders["vary"] # << >>)

\* a policy stored with Vary: weather was revalidated by a 304 that matched,
\* adopted, and read back with the headers of the revalidation request
C34_Witness ==
    /\ out.op = "fromObject"
    /\ policy.responseTime > StartTime
    /\ policy.reqHeaders = Some(request.headers)
    /\ "weather" \in DOMAIN request.headers
    /\ policy.resHeaders["vary"] = <<"weather">>
    /\ "cache-control" \in DOMAIN response.headers


\* maxAge() answers at every instant what it answers for the policy as built
LifetimeFixed ==
    out.op = "maxAge" =>
        out.result = MaxAge(NewCachePolicy(request, response, options, StartTime))

\* what an advance of the clock does to a policy's answers
ClockOnlyAges ==
    now' # now =>
        /\ now' > now
        /\ policy' = policy
        /\ MaxAge(policy') = MaxAge(policy)
        /\ Storable(policy') = Storable(policy)
        /\ Age(policy, now') >= Age(policy, now)
        /\ Stale(policy, now) => Stale(policy, now')
        /\ ~JsGt(TimeToLive(policy, now'), TimeToLive(policy, now))

\* C36: for a fixed policy maxAge() and storable() do not depend on the
\* time, age() never decreases as the clock advances, a policy that is stale
\* stays stale and timeToLive() never increases.
C36_OnlyAgeMovesWithTime == [](LifetimeFixed) /\ [][ClockOnlyAges]_vars

\* a policy that was fresh when built, with time to live left, reports stale
\* after the clock has advanced
C36_Witness ==
    /\ ~Stale(policy, StartTime)
    /\ JsGt(TimeToLive(policy, StartTime), Num(0))
    /\ now > StartTime + TickLength
    /\ out.op = "stale"
    /\ out.result = TRUE
    /\ TimeToLive(policy, now) = Num(0)


\* C37: satisfiesWithoutRevalidation never returns true for a policy whose
\* storable() is false or whose response carries no-cache, whatever
\* directives, max-stale included, the new request carries.
C37_NeverServesUncacheable ==
    (Satisfying /\ (~Storable(policy) \/ Dir(policy.rescc, "no-cache"))) =>
        out.result = FALSE


\* C38: in every outcome of revalidatedPolicy, whether the validators match
\* or not, the returned policy has the shared setting, the cacheHeuristic,
\* the immutableMinTimeToLive and the trustServerDate of the policy it was
\* called on.
C38_OptionsCarriedForward ==
    Revalidating =>
        /\ out.result.policy.isShared = policy.isShared
        /\ out.result.policy.cacheHeuristic = policy.cacheHeuristic
        /\ out.result.policy.immutableMinTtl = policy.immutableMinTtl
        /\ out.result.policy.trustServerDate = policy.trustServerDate


\* C39: when revalidatedPolicy returns matches = true for a 304 response
\* that carries no Age header, the policy it returns is not stale at that
\* instant provided its maxAge() is greater than 0.
C39_FreshAfterRevalidation ==
    (/\ Revalidating
     /\ out.result.matches
     /\ out.res.status = Some(304)
     /\ "age" \notin DOMAIN out.res.headers
     /\ JsGt(MaxAge(out.result.policy), Num(0))) =>
        ~Stale(out.result.policy, out.at)


\* the requests of StaleRequests that carry no max-stale
RequestsWithoutMaxStale ==
    {req \in StaleRequests :
        \/ "cache-control" \notin DOMAIN req.headers
        \/ ~ContainsWord(req.headers["cache-control"], "max-stale")}

\* the policy is stale now
StaleNow == Stale(policy, now)

\* no request without max-stale is answered true now
NotServedNow ==
    \A req \in RequestsWithoutMaxStale : ~SatisfiesWithoutRevalidation(policy, req, now)

=============================================================================
